---- MODULE Spec2Model ----
(***************************************************************************)
(* AgentNOC: the MCP connection manager.                                   *)
(*                                                                         *)
(* Spec        one agent invocation (AlertAnalyzer::run / Chat::run):      *)
(*             connect_all_enabled over the enabled rows of the registry,  *)
(*             the agent builder loop of run_agent_with_tools, the prompt  *)
(*             with its tool invocations, and the return.                  *)
(* HealthSpec  the health sweep (agents/health.rs run).                    *)
(* TestSpec    the on-demand test of one server (routes/mcp.rs             *)
(*             test_mcp_server); FairTestSpec adds weak fairness of the    *)
(*             handler's steps.                                            *)
(* RegistrySpec the registry API (database/db.rs): create, update, delete,  *)
(*             enable and disable of the built-in servers.                 *)
(* ConnectSpec one call of connect (mcp_clients.rs).                       *)
(* ConcurrentSpec connect_all_enabled with calls of the registry API       *)
(*             committing between its steps.                               *)
(* AlertSpec   alerts and their chat messages (routes/alerts.rs).          *)
(***************************************************************************)
EXTENDS Integers, Sequences, FiniteSets, TLC

VARIABLES
    registry,         \* rows of table mcp_servers
    agent,            \* "AlertAnalyzer" or "Chat": which run() this invocation is
    pc,               \* position of the invocation
    readResult,       \* what get_enabled_mcp_servers returned to connect_all_enabled
    servers,          \* connect_all_enabled: the Vec<McpServer> being iterated
    idx,              \* connect_all_enabled: position of the for loop in servers
    connections,      \* connect_all_enabled: Vec<MCPConnection>
    failed_count,     \* connect_all_enabled: failed_count
    caeResult,        \* what connect_all_enabled returned: "none", "Ok", "Err"
    attempts,         \* history: one entry per call of connect, in call order
    used,             \* history: the McpServer each call of connect was given, in call order
    readFrom,         \* history: the rows of mcp_servers when connect_all_enabled read them
    connections_iter, \* run_agent_with_tools: connections.into_iter(), what is left
    first_conn,       \* run_agent_with_tools: the binding first_conn (a set, empty or one)
    handed,           \* the (tool, peer) pairs passed to rmcp_tools, in call order
    alive,            \* names of the connections whose _service has not been dropped
    turn,             \* tool invocations made by the running agent so far
    lastCall,         \* the latest tool invocation of the running agent
    runResult,        \* what run() returned: "none", "Ok", "Err"
    promptResult,     \* what agent.prompt(..).multi_turn(3) returned
    hpc,              \* health sweep: position in run
    health_status,    \* health sweep: HealthStatus {status, services}
    probe,            \* the probe in flight: deadline, latency, outcome, elapsed
    probeLog,         \* history: the probes resolved so far
    sweepResult,      \* what health::run returned
    tpc,              \* on-demand test: position in test_mcp_server
    testId,           \* on-demand test: the id of the request path
    testServer,       \* on-demand test: the server read by get_mcp_server_by_id
    testProbe,        \* on-demand test: the connect in flight
    testResponse,     \* on-demand test: the response of test_mcp_server
    sqlite_sequence,  \* AUTOINCREMENT: the largest id mcp_servers ever gave out
    lastOp,           \* history: the latest call of the registry API and its return
    before,           \* history: the rows of mcp_servers before the latest call
    prevOp,           \* history: the operation of the call before the latest
    created,          \* history: per id, the kind and name of the row and who inserted it
    edited,           \* history: the built-in names whose row was edited since the last disable, enable
    calls,            \* history: the number of calls of the registry API so far
    connectCall,      \* one call of connect: the server, the server side's answer, the return
    alerts,           \* rows of table alerts
    chat_messages,    \* rows of table chat_messages
    alert_sequence,   \* AUTOINCREMENT: the largest id alerts ever gave out
    message_sequence, \* AUTOINCREMENT: the largest id chat_messages ever gave out
    chats,            \* the chat_with_alert handlers in flight: the alert, the position
    alertOp,          \* history: the latest call on alerts and chat_messages, the rows before it
    events,           \* history: the events sent on the broadcast channel tx, in order
    updates,          \* the two update_mcp_server calls running concurrently
    enables,          \* the two enable_native_mcp_servers(true) calls running concurrently
    relevance,        \* one call of is_alert_relevant: the configuration, the alert, the return
    messages,         \* terminal UI: the Vec<String> messages of run
    rx,               \* terminal UI: the messages sent on the channel and not yet received
    sent,             \* terminal UI: the number of messages sent on the channel so far
    tui               \* terminal UI: position in the loop of run

agentVars ==
    <<agent, pc, readResult, readFrom, servers, idx, connections, failed_count, caeResult,
      attempts, used, connections_iter, first_conn, handed, alive, turn, lastCall,
      runResult, promptResult>>

healthVars ==
    <<hpc, health_status, probe, probeLog, sweepResult, tpc, testId, testServer,
      testProbe, testResponse>>

registryVars == <<sqlite_sequence, lastOp, before, prevOp, created, edited, calls>>

connectVars == <<connectCall>>

alertVars ==
    <<alerts, chat_messages, alert_sequence, message_sequence, chats, alertOp, events>>

raceVars == <<updates, enables>>

configVars == <<relevance>>

tuiVars == <<messages, rx, sent, tui>>

vars ==
    <<registry, agentVars, healthVars, registryVars, connectVars, alertVars, raceVars,
      configVars, tuiVars>>

(***************************************************************************)
(* Bounds of the model.                                                    *)
(***************************************************************************)
MaxServers == 3
MaxLatency == 6
MaxCalls == 3
MaxMidCalls == 1
MaxAlerts == 2
MaxMessages == 4

(***************************************************************************)
(* Program constants.                                                      *)
(***************************************************************************)
MaxTurns == 3
RipestatDeadline == 3
WhoisDeadline == 5

NULL == "NULL"

\* the latency of a server that never answers: a mark above every latency
Never == MaxLatency + 1

\* Server names in the order of SQLite's BINARY collation (ORDER BY name ASC).
NameOrder == <<"alpha", "ripestat", "whois", "zeta">>

Names == {NameOrder[i] : i \in 1..MaxServers}

Rank(n) == CHOOSE i \in 1..Len(NameOrder) : NameOrder[i] = n

\* Tool lists a server may answer the tool enumeration with.
ToolLists == {<<>>, <<"lookup">>, <<"lookup", "asn">>}

(***************************************************************************)
(* The registry: table mcp_servers.                                        *)
(***************************************************************************)
\* One row of mcp_servers.  url, command and description are a string or NULL;
\* args and env are NULL (the empty set) or a JSON text (a set of one text).
\* (created_at and updated_at are left out: no operation reads them.)
Row(id, name, description, tt, url, command, args, env, enabled, is_native) ==
    [id |-> id, name |-> name, description |-> description, transport_type |-> tt,
     url |-> url, command |-> command, args |-> args, env |-> env,
     enabled |-> enabled, is_native |-> is_native]

\* The rows create_mcp_server and update_mcp_server can leave under one name:
\* an http row has a url and no command, a stdio row a command and no url;
\* an update may have set the url or the command to the empty string.
RowShapes ==
    {[transport_type |-> "http", url |-> u, command |-> NULL, enabled |-> e] :
        u \in {"", "https://h/mcp"}, e \in BOOLEAN}
    \cup
    {[transport_type |-> "stdio", url |-> NULL, command |-> c, enabled |-> e] :
        c \in {"", "uvx"}, e \in BOOLEAN}

\* name TEXT NOT NULL UNIQUE: at most one row per name.
Registries ==
    UNION {{{Row(Rank(n), n, NULL, g[n].transport_type, g[n].url, g[n].command, {}, {},
                 g[n].enabled, FALSE) :
                n \in present} : g \in [present -> RowShapes]} :
           present \in SUBSET Names}

(***************************************************************************)
(* JSON texts of the columns args and env.  A text is a sequence of        *)
(* tokens; the content of a string literal is one value of the model (its  *)
(* escaping is below the tokens).                                          *)
(***************************************************************************)
Tok(t, v) == [t |-> t, v |-> v]

\* the elements of a JSON array of strings, separated by commas
RECURSIVE Elements(_)
Elements(a) ==
    IF a = <<>> THEN <<>>
    ELSE IF Len(a) = 1 THEN <<Tok("str", a[1])>>
    ELSE <<Tok("str", a[1]), Tok(",", "")>> \o Elements(Tail(a))

\* serde_json::to_string(args) for a Vec<String>
to_string_vec(a) == <<Tok("[", "")>> \o Elements(a) \o <<Tok("]", "")>>

\* the members of a JSON object of strings, in the order the map is iterated
RECURSIVE Members(_, _)
Members(m, order) ==
    IF order = <<>> THEN <<>>
    ELSE LET one == <<Tok("str", Head(order)), Tok(":", ""), Tok("str", m[Head(order)])>>
         IN  IF Len(order) = 1 THEN one
             ELSE one \o <<Tok(",", "")>> \o Members(m, Tail(order))

\* serde_json::to_string(env) for a HashMap<String, String>; order is the order
\* in which the map hands out its keys
to_string_map(m, order) ==
    <<Tok("{", "")>> \o Members(m, SelectSeq(order, LAMBDA k : k \in DOMAIN m)) \o <<Tok("}", "")>>

RECURSIVE ParseElements(_)
ParseElements(toks) ==
    IF toks = <<>> THEN [ok |-> FALSE, value |-> <<>>]
    ELSE IF Head(toks).t # "str" THEN [ok |-> FALSE, value |-> <<>>]
    ELSE IF Len(toks) = 1 THEN [ok |-> TRUE, value |-> <<Head(toks).v>>]
    ELSE IF toks[2].t # "," THEN [ok |-> FALSE, value |-> <<>>]
    ELSE LET rest == ParseElements(SubSeq(toks, 3, Len(toks)))
         IN  [ok |-> rest.ok, value |-> <<Head(toks).v>> \o rest.value]

\* serde_json::from_str::<Vec<String>>
from_str_vec(text) ==
    IF Len(text) < 2 \/ text[1].t # "[" \/ text[Len(text)].t # "]"
    THEN [ok |-> FALSE, value |-> <<>>]
    ELSE IF Len(text) = 2 THEN [ok |-> TRUE, value |-> <<>>]
    ELSE ParseElements(SubSeq(text, 2, Len(text) - 1))

NoEnv == [k \in {} |-> ""]

RECURSIVE ParseMembers(_)
ParseMembers(toks) ==
    IF Len(toks) < 3 THEN [ok |-> FALSE, value |-> NoEnv]
    ELSE IF toks[1].t # "str" \/ toks[2].t # ":" \/ toks[3].t # "str"
    THEN [ok |-> FALSE, value |-> NoEnv]
    ELSE IF Len(toks) = 3
    THEN [ok |-> TRUE, value |-> [k \in {toks[1].v} |-> toks[3].v]]
    ELSE IF toks[4].t # "," THEN [ok |-> FALSE, value |-> NoEnv]
    ELSE LET rest == ParseMembers(SubSeq(toks, 5, Len(toks)))
         IN  [ok |-> rest.ok,
              value |-> [k \in {toks[1].v} \cup DOMAIN rest.value |->
                            IF k \in DOMAIN rest.value THEN rest.value[k] ELSE toks[3].v]]

\* serde_json::from_str::<HashMap<String, String>> (a later member of the same
\* key replaces an earlier one)
from_str_map(text) ==
    IF Len(text) < 2 \/ text[1].t # "{" \/ text[Len(text)].t # "}"
    THEN [ok |-> FALSE, value |-> NoEnv]
    ELSE IF Len(text) = 2 THEN [ok |-> TRUE, value |-> NoEnv]
    ELSE ParseMembers(SubSeq(text, 2, Len(text) - 1))

\* McpServer::from_row
from_row(row) ==
    CASE row.transport_type = "http" ->
            IF row.url = NULL THEN [ok |-> FALSE, err |-> "HTTP transport requires a URL"]
            ELSE IF row.url = "" THEN [ok |-> FALSE, err |-> "HTTP transport requires a non-empty URL"]
            ELSE [ok |-> TRUE,
                  server |-> [kind |-> "Http", id |-> row.id, name |-> row.name,
                              description |-> row.description, enabled |-> row.enabled,
                              is_native |-> row.is_native, url |-> row.url]]
      [] row.transport_type = "stdio" ->
            LET a == IF row.args = {} THEN [ok |-> TRUE, value |-> <<>>]
                     ELSE from_str_vec(CHOOSE t \in row.args : TRUE)
                e == IF row.env = {} THEN [ok |-> TRUE, value |-> NoEnv]
                     ELSE from_str_map(CHOOSE t \in row.env : TRUE)
            IN  IF row.command = NULL THEN [ok |-> FALSE, err |-> "Stdio transport requires a command"]
                ELSE IF row.command = "" THEN [ok |-> FALSE, err |-> "Stdio transport requires a non-empty command"]
                ELSE IF ~a.ok THEN [ok |-> FALSE, err |-> "Failed to parse args JSON"]
                ELSE IF ~e.ok THEN [ok |-> FALSE, err |-> "Failed to parse env JSON"]
                ELSE [ok |-> TRUE,
                      server |-> [kind |-> "Stdio", id |-> row.id, name |-> row.name,
                                  description |-> row.description, enabled |-> row.enabled,
                                  is_native |-> row.is_native, command |-> row.command,
                                  args |-> a.value, env |-> e.value]]
      [] OTHER -> [ok |-> FALSE, err |-> "Invalid transport type"]

\* ORDER BY name ASC
RECURSIVE OrderByName(_)
OrderByName(S) ==
    IF S = {} THEN <<>>
    ELSE LET first == CHOOSE r \in S : \A o \in S : Rank(r.name) <= Rank(o.name)
         IN  <<first>> \o OrderByName(S \ {first})

\* Mutant of SelectEnabled: the query without WHERE enabled = 1
SelectEnabled_All(R) == OrderByName(R)

\* SELECT ... FROM mcp_servers WHERE enabled = 1 ORDER BY name ASC
SelectEnabled(R) == OrderByName({r \in R : r.enabled})

\* get_enabled_mcp_servers: the query, then from_row on every row; the first
\* error (of the query, or of a row that does not parse) is returned.
get_enabled_mcp_servers(R, dbOk) ==
    IF ~dbOk THEN [ok |-> FALSE, servers |-> <<>>]
    ELSE LET rows == SelectEnabled(R)
         IN  IF \E i \in 1..Len(rows) : ~from_row(rows[i]).ok
             THEN [ok |-> FALSE, servers |-> <<>>]
             ELSE [ok |-> TRUE, servers |-> [i \in 1..Len(rows) |-> from_row(rows[i]).server]]

(***************************************************************************)
(* Establishing one connection (mcp_clients.rs).                           *)
(*                                                                         *)
(* What the server side does in one attempt is an input of the model:      *)
(* fail names the step that fails ("none" when every step succeeds) and    *)
(* tools is the answer to the tool enumeration.                            *)
(***************************************************************************)
Responses(server) ==
    {[fail |-> f, tools |-> <<>>] :
        f \in (IF server.kind = "Stdio" THEN {"spawn"} ELSE {}) \cup {"handshake", "list_tools"}}
    \cup {[fail |-> "none", tools |-> t] : t \in ToolLists}

MCPConnection(name, tools) == [name |-> name, tools |-> tools, peer |-> name]

\* Mutant of connect_http: a failed tool enumeration is taken as no tool
\* (list_tools(..).await.unwrap_or_default())
connect_http_IgnoreListError(name, resp) ==
    IF resp.fail = "handshake"
    THEN [ok |-> FALSE, err |-> "handshake", steps |-> <<"serve">>]
    ELSE [ok |-> TRUE, conn |-> MCPConnection(name, resp.tools),
          steps |-> <<"serve", "list_tools">>]

\* connect_http: serve(transport) is the handshake, then list_tools; steps
\* are the requests made of the server, in the order of the statements
connect_http(name, resp) ==
    IF resp.fail = "handshake"
    THEN [ok |-> FALSE, err |-> "handshake", steps |-> <<"serve">>]
    ELSE IF resp.fail = "list_tools"
    THEN [ok |-> FALSE, err |-> "list_tools", steps |-> <<"serve", "list_tools">>]
    ELSE [ok |-> TRUE, conn |-> MCPConnection(name, resp.tools),
          steps |-> <<"serve", "list_tools">>]

\* connect_stdio: TokioChildProcess::new spawns the child, then as connect_http
connect_stdio(name, resp) ==
    IF resp.fail = "spawn"
    THEN [ok |-> FALSE, err |-> "spawn", steps |-> <<"spawn">>]
    ELSE IF resp.fail = "handshake"
    THEN [ok |-> FALSE, err |-> "handshake", steps |-> <<"spawn", "serve">>]
    ELSE IF resp.fail = "list_tools"
    THEN [ok |-> FALSE, err |-> "list_tools", steps |-> <<"spawn", "serve", "list_tools">>]
    ELSE [ok |-> TRUE, conn |-> MCPConnection(name, resp.tools),
          steps |-> <<"spawn", "serve", "list_tools">>]

\* connect: the match on the transport kind
connect(server, resp) ==
    IF server.kind = "Http" THEN connect_http(server.name, resp)
    ELSE connect_stdio(server.name, resp)

(***************************************************************************)
(* connect_all_enabled                                                     *)
(***************************************************************************)
NoCall == [tool |-> "none", peer |-> "none", owner_alive |-> TRUE]

AgentIdle ==
    /\ pc = "idle"
    /\ readResult = "none"
    /\ servers = <<>>
    /\ idx = 0
    /\ connections = <<>>
    /\ failed_count = 0
    /\ caeResult = "none"
    /\ attempts = <<>>
    /\ used = <<>>
    /\ readFrom = {}
    /\ connections_iter = <<>>
    /\ first_conn = {}
    /\ handed = <<>>
    /\ alive = {}
    /\ turn = 0
    /\ lastCall = NoCall
    /\ runResult = "none"
    /\ promptResult = "none"

\* let servers = get_enabled_mcp_servers(pool).await?;  if servers.is_empty() { return Ok(Vec::new()) }
ReadEnabled ==
    /\ pc = "idle"
    /\ \E dbOk \in BOOLEAN :
         LET got == get_enabled_mcp_servers(registry, dbOk)
         IN  /\ readResult' = (IF got.ok THEN "Ok" ELSE "Err")
             /\ readFrom' = registry
             /\ servers' = got.servers
             /\ IF ~got.ok
                THEN /\ caeResult' = "Err"      \* `?` in connect_all_enabled
                     /\ runResult' = "Err"      \* `?` in run
                     /\ pc' = "done"
                     /\ idx' = idx
                ELSE IF got.servers = <<>>
                THEN /\ caeResult' = "Ok"
                     /\ runResult' = runResult
                     /\ pc' = "connected"
                     /\ idx' = idx
                ELSE /\ caeResult' = caeResult
                     /\ runResult' = runResult
                     /\ pc' = "connecting"
                     /\ idx' = 1
    /\ UNCHANGED <<registry, registryVars, connectVars, alertVars, raceVars, configVars, tuiVars, agent, connections, failed_count, attempts, used, connections_iter,
                   first_conn, handed, alive, turn, lastCall, promptResult, healthVars>>

\* Mutants of ConnectNext (each a plausible slip of the loop body).
\* the Err arm forgets failed_count += 1
ConnectNext_NoCount ==
    /\ pc = "connecting"
    /\ idx <= Len(servers)
    /\ \E resp \in Responses(servers[idx]) :
         LET r == connect(servers[idx], resp)
         IN  /\ attempts' = Append(attempts, [name |-> servers[idx].name, ok |-> resp.fail = "none"])
             /\ used' = Append(used, servers[idx])
             /\ IF r.ok
                THEN /\ connections' = Append(connections, r.conn)
                     /\ alive' = alive \cup {r.conn.name}
                ELSE UNCHANGED <<connections, alive>>
    /\ idx' = idx + 1
    /\ UNCHANGED <<registry, registryVars, connectVars, alertVars, raceVars, configVars, tuiVars, agent, pc, readResult, readFrom, servers, caeResult, connections_iter,
                   first_conn, handed, turn, lastCall, runResult, promptResult, healthVars,
                   failed_count>>

\* the Err arm leaves the loop (break)
ConnectNext_AbortOnFailure ==
    /\ pc = "connecting"
    /\ idx <= Len(servers)
    /\ \E resp \in Responses(servers[idx]) :
         LET r == connect(servers[idx], resp)
         IN  /\ attempts' = Append(attempts, [name |-> servers[idx].name, ok |-> resp.fail = "none"])
             /\ used' = Append(used, servers[idx])
             /\ IF r.ok
                THEN /\ connections' = Append(connections, r.conn)
                     /\ alive' = alive \cup {r.conn.name}
                     /\ failed_count' = failed_count
                     /\ idx' = idx + 1
                ELSE /\ failed_count' = failed_count + 1
                     /\ idx' = Len(servers) + 1
                     /\ UNCHANGED <<connections, alive>>
    /\ UNCHANGED <<registry, registryVars, connectVars, alertVars, raceVars, configVars, tuiVars, agent, pc, readResult, readFrom, servers, caeResult, connections_iter,
                   first_conn, handed, turn, lastCall, runResult, promptResult, healthVars>>

\* the Ok arm inserts the connection at the front (connections.insert(0, conn))
ConnectNext_Prepend ==
    /\ pc = "connecting"
    /\ idx <= Len(servers)
    /\ \E resp \in Responses(servers[idx]) :
         LET r == connect(servers[idx], resp)
         IN  /\ attempts' = Append(attempts, [name |-> servers[idx].name, ok |-> resp.fail = "none"])
             /\ used' = Append(used, servers[idx])
             /\ IF r.ok
                THEN /\ connections' = <<r.conn>> \o connections
                     /\ alive' = alive \cup {r.conn.name}
                     /\ failed_count' = failed_count
                ELSE /\ failed_count' = failed_count + 1
                     /\ UNCHANGED <<connections, alive>>
    /\ idx' = idx + 1
    /\ UNCHANGED <<registry, registryVars, connectVars, alertVars, raceVars, configVars, tuiVars, agent, pc, readResult, readFrom, servers, caeResult, connections_iter,
                   first_conn, handed, turn, lastCall, runResult, promptResult, healthVars>>

\* the error of connect is propagated (connect(&server).await?)
ConnectNext_Propagate ==
    /\ pc = "connecting"
    /\ idx <= Len(servers)
    /\ \E resp \in Responses(servers[idx]) :
         LET r == connect(servers[idx], resp)
         IN  /\ attempts' = Append(attempts, [name |-> servers[idx].name, ok |-> resp.fail = "none"])
             /\ used' = Append(used, servers[idx])
             /\ IF r.ok
                THEN /\ connections' = Append(connections, r.conn)
                     /\ alive' = alive \cup {r.conn.name}
                     /\ UNCHANGED <<caeResult, runResult, pc>>
                ELSE /\ caeResult' = "Err"
                     /\ runResult' = "Err"
                     /\ pc' = "done"
                     /\ alive' = {}
                     /\ UNCHANGED connections
    /\ idx' = idx + 1
    /\ UNCHANGED <<registry, registryVars, connectVars, alertVars, raceVars, configVars, tuiVars, agent, readResult, readFrom, servers, connections_iter, failed_count,
                   first_conn, handed, turn, lastCall, promptResult, healthVars>>

\* Mutant of ConnectNext: the server of the iteration is taken from a fresh
\* query of the enabled rows
ConnectNext_Reread ==
    /\ pc = "connecting"
    /\ idx <= Len(servers)
    /\ LET now == get_enabled_mcp_servers(registry, TRUE).servers
           server == IF idx <= Len(now) THEN now[idx] ELSE servers[idx]
       IN  \E resp \in Responses(server) :
             LET r == connect(server, resp)
             IN  /\ attempts' = Append(attempts, [name |-> server.name, ok |-> resp.fail = "none"])
                 /\ used' = Append(used, server)
                 /\ IF r.ok
                    THEN /\ connections' = Append(connections, r.conn)
                         /\ alive' = alive \cup {r.conn.name}
                         /\ failed_count' = failed_count
                    ELSE /\ failed_count' = failed_count + 1
                         /\ UNCHANGED <<connections, alive>>
    /\ idx' = idx + 1
    /\ UNCHANGED <<registry, registryVars, connectVars, alertVars, raceVars, configVars, tuiVars, agent, pc, readResult,
                   readFrom, servers, caeResult, connections_iter, first_conn, handed, turn,
                   lastCall, runResult, promptResult, healthVars>>

\* one iteration of `for server in servers { match connect(&server).await {..} }`
ConnectNext ==
    /\ pc = "connecting"
    /\ idx <= Len(servers)
    /\ \E resp \in Responses(servers[idx]) :
         LET r == connect(servers[idx], resp)
         IN  /\ attempts' = Append(attempts, [name |-> servers[idx].name, ok |-> resp.fail = "none"])
             /\ used' = Append(used, servers[idx])
             /\ IF r.ok
                THEN /\ connections' = Append(connections, r.conn)
                     /\ alive' = alive \cup {r.conn.name}
                     /\ failed_count' = failed_count
                ELSE /\ failed_count' = failed_count + 1
                     /\ UNCHANGED <<connections, alive>>
    /\ idx' = idx + 1
    /\ UNCHANGED <<registry, registryVars, connectVars, alertVars, raceVars, configVars, tuiVars, agent, pc, readResult, readFrom, servers, caeResult, connections_iter,
                   first_conn, handed, turn, lastCall, runResult, promptResult, healthVars>>

\* Mutant of ConnectAllReturn: an aggregation without any connection is an error
ConnectAllReturn_ErrWhenEmpty ==
    /\ pc = "connecting"
    /\ idx > Len(servers)
    /\ IF connections = <<>>
       THEN /\ caeResult' = "Err"
            /\ runResult' = "Err"
            /\ pc' = "done"
       ELSE /\ caeResult' = "Ok"
            /\ pc' = "connected"
            /\ runResult' = runResult
    /\ UNCHANGED <<registry, registryVars, connectVars, alertVars, raceVars, configVars, tuiVars, agent, readResult, readFrom, servers, idx, connections, failed_count,
                   attempts, used, connections_iter, first_conn, handed, alive, turn, lastCall,
                   promptResult, healthVars>>

\* the loop is over: Ok(connections)
ConnectAllReturn ==
    /\ pc = "connecting"
    /\ idx > Len(servers)
    /\ caeResult' = "Ok"
    /\ pc' = "connected"
    /\ UNCHANGED <<registry, registryVars, connectVars, alertVars, raceVars, configVars, tuiVars, agent, readResult, readFrom, servers, idx, connections, failed_count,
                   attempts, used, connections_iter, first_conn, handed, alive, turn, lastCall,
                   runResult, promptResult, healthVars>>

(***************************************************************************)
(* run_agent_with_tools (alert_analyzer.rs, chat.rs: the same code but for *)
(* max_tokens).                                                            *)
(***************************************************************************)
\* rmcp_tools(conn.tools, conn.peer): every tool of the list is registered with
\* that peer.
rmcp_tools(builder, conn) ==
    builder \o [i \in 1..Len(conn.tools) |-> [tool |-> conn.tools[i], peer |-> conn.peer]]

\* (Between connect_all_enabled and this call run serialises the alert with
\* `?`: BGPAlerterAlert holds only strings and options of strings, for which
\* serde_json cannot fail, so that return is not a step of the model.)
\* if connections.is_empty() { build the agent without tools }, else
\* connections.into_iter(); first_conn = next().unwrap(); rmcp_tools(first_conn.tools, first_conn.peer)
\* tools and peer are moved out of first_conn; what is left of it (name,
\* _service) lives to the end of the function.
BuildFirst ==
    /\ pc = "connected"
    /\ IF connections = <<>>
       THEN /\ pc' = "prompting"
            /\ UNCHANGED <<connections_iter, first_conn, handed>>
       ELSE /\ first_conn' = {Head(connections).name}
            /\ connections_iter' = Tail(connections)
            /\ handed' = rmcp_tools(<<>>, Head(connections))
            /\ pc' = "building"
    /\ UNCHANGED <<registry, registryVars, connectVars, alertVars, raceVars, configVars, tuiVars, agent, readResult, readFrom, servers, idx, connections, failed_count,
                   caeResult, attempts, used, alive, turn, lastCall, runResult, promptResult,
                   healthVars>>

\* one iteration of `for conn in connections_iter { agent_builder = agent_builder.rmcp_tools(conn.tools, conn.peer); }`
\* conn is a binding of the loop body: tools and peer are moved out of it, and
\* at the end of the iteration the rest of conn, its _service with it, is dropped.
BuildNext ==
    /\ pc = "building"
    /\ connections_iter # <<>>
    /\ LET conn == Head(connections_iter)
       IN  /\ handed' = rmcp_tools(handed, conn)
           /\ alive' = alive \ {conn.name}
    /\ connections_iter' = Tail(connections_iter)
    /\ UNCHANGED <<registry, registryVars, connectVars, alertVars, raceVars, configVars, tuiVars, agent, pc, readResult, readFrom, servers, idx, connections, failed_count,
                   caeResult, attempts, used, first_conn, turn, lastCall, runResult, promptResult,
                   healthVars>>

\* let agent = agent_builder.build(); agent.prompt(prompt).multi_turn(3)
BuildDone ==
    /\ pc = "building"
    /\ connections_iter = <<>>
    /\ pc' = "prompting"
    /\ UNCHANGED <<registry, registryVars, connectVars, alertVars, raceVars, configVars, tuiVars, agent, readResult, readFrom, servers, idx, connections, failed_count,
                   caeResult, attempts, used, connections_iter, first_conn, handed, alive, turn,
                   lastCall, runResult, promptResult, healthVars>>

\* the running agent invokes one of the tools it was given, through the peer
\* the tool was registered with
ToolCall ==
    /\ pc = "prompting"
    /\ turn < MaxTurns
    /\ \E i \in 1..Len(handed) :
         lastCall' = [tool |-> handed[i].tool, peer |-> handed[i].peer,
                      owner_alive |-> handed[i].peer \in alive]
    /\ turn' = turn + 1
    /\ UNCHANGED <<registry, registryVars, connectVars, alertVars, raceVars, configVars, tuiVars, agent, pc, readResult, readFrom, servers, idx, connections, failed_count,
                   caeResult, attempts, used, connections_iter, first_conn, handed, alive,
                   runResult, promptResult, healthVars>>

\* Mutant of PromptReturn: the first connection is kept for the next
\* invocation instead of going out of scope
PromptReturn_KeepFirst ==
    /\ pc = "prompting"
    /\ \E ok \in BOOLEAN :
         /\ promptResult' = (IF ok THEN "Ok" ELSE "Err")
         /\ runResult' = (IF ok THEN "Ok" ELSE "Err")
    /\ pc' = "done"
    /\ UNCHANGED <<registry, registryVars, connectVars, alertVars, raceVars, configVars, tuiVars, agent, readResult, readFrom,
                   servers, idx, connections, failed_count, caeResult, attempts, used,
                   connections_iter, handed, turn, lastCall, healthVars, alive, first_conn>>

\* the prompt returns, run_agent_with_tools returns through `?` or Ok, and run
\* returns the same; first_conn and the agent go out of scope
PromptReturn ==
    /\ pc = "prompting"
    /\ \E ok \in BOOLEAN :
         /\ promptResult' = (IF ok THEN "Ok" ELSE "Err")
         /\ runResult' = (IF ok THEN "Ok" ELSE "Err")
    /\ alive' = alive \ first_conn
    /\ first_conn' = {}
    /\ pc' = "done"
    /\ UNCHANGED <<registry, registryVars, connectVars, alertVars, raceVars, configVars, tuiVars, agent, readResult, readFrom, servers, idx, connections, failed_count,
                   caeResult, attempts, used, connections_iter, handed, turn, lastCall, healthVars>>

(***************************************************************************)
(* The specification of one agent invocation.                              *)
(***************************************************************************)
\* HashMap::insert and HashMap::new
Insert(map, key, value) ==
    [k \in DOMAIN map \cup {key} |-> IF k = key THEN value ELSE map[k]]

NoServices == [k \in {} |-> ""]

NoProbe == [target |-> "none", deadline |-> Never, latency |-> Never, ok |-> TRUE, elapsed |-> 0]

NoTestProbe == [latency |-> Never, resp |-> [fail |-> "none", tools |-> <<>>], elapsed |-> 0]

NoResponse == [status |-> 0, success |-> FALSE, tool_count |-> {}, error |-> {}]

\* CreateMcpServer::Http and CreateMcpServer::Stdio; a field the variant does
\* not have holds its default
CreateHttp(name, description, url, enabled) ==
    [kind |-> "Http", name |-> name, description |-> description, url |-> url,
     command |-> NULL, args |-> <<>>, env |-> NoEnv, enabled |-> enabled]

CreateStdio(name, description, command, args, env, enabled) ==
    [kind |-> "Stdio", name |-> name, description |-> description, url |-> NULL,
     command |-> command, args |-> args, env |-> env, enabled |-> enabled]

\* UpdateMcpServer: every field an Option, the empty set (None) or a set of one
\* value (Some)
UpdateMcpServer(name, description, url, command, args, env, enabled) ==
    [name |-> name, description |-> description, url |-> url, command |-> command,
     args |-> args, env |-> env, enabled |-> enabled]

NoCreate == CreateHttp("", NULL, "", FALSE)

NoUpdate == UpdateMcpServer({}, {}, {}, {}, {}, {}, {})

NoOp ==
    [op |-> "none", id |-> 0, create |-> NoCreate, update |-> NoUpdate, ok |-> TRUE,
     err |-> "", wrote |-> FALSE, result |-> {}]

NoneCreated == [i \in {} |-> [kind |-> "", name |-> "", native |-> FALSE]]

RegistryIdle ==
    /\ sqlite_sequence = 0
    /\ lastOp = NoOp
    /\ before = {}
    /\ prevOp = "none"
    /\ created = NoneCreated
    /\ edited = {}
    /\ calls = 0

HealthIdle ==
    /\ hpc = "idle"
    /\ health_status = [status |-> "none", services |-> NoServices]
    /\ probe = NoProbe
    /\ probeLog = <<>>
    /\ sweepResult = "none"
    /\ tpc = "idle"
    /\ testId = 0
    /\ testServer = {}
    /\ testProbe = NoTestProbe
    /\ testResponse = NoResponse

\* no call of connect on its own is in progress
NoConnectCall ==
    [server |-> {}, resp |-> [fail |-> "none", tools |-> <<>>], returned |-> FALSE,
     ok |-> FALSE, conn |-> {}, err |-> "", steps |-> <<>>]

ConnectIdle == connectCall = NoConnectCall

NoAlertOp ==
    [op |-> "none", id |-> 0, ok |-> TRUE, alerts |-> {}, chat_messages |-> {}]

\* run_migrations creates alerts and chat_messages without a row
AlertIdle ==
    /\ alerts = {}
    /\ chat_messages = {}
    /\ alert_sequence = 0
    /\ message_sequence = 0
    /\ chats = {}
    /\ alertOp = NoAlertOp
    /\ events = <<>>

\* no concurrent calls of the registry API are set up
RaceIdle ==
    /\ updates = <<>>
    /\ enables = <<>>

\* is_alert_relevant is not called
ConfigIdle ==
    relevance = [prefixes |-> <<>>, monitored_asns |-> {}, prefix |-> "", newprefix |-> {},
                 asn |-> "", neworigin |-> {}, returned |-> FALSE, result |-> FALSE]

\* the terminal UI is not started
TuiIdle ==
    /\ messages = <<>>
    /\ rx = <<>>
    /\ sent = 0
    /\ tui = "idle"

Init ==
    /\ registry \in Registries
    /\ agent \in {"AlertAnalyzer", "Chat"}
    /\ AgentIdle
    /\ HealthIdle
    /\ ConnectIdle
    /\ AlertIdle
    /\ RaceIdle
    /\ ConfigIdle
    /\ TuiIdle
    /\ RegistryIdle

Next ==
    \/ ReadEnabled
    \/ ConnectNext
    \/ ConnectAllReturn
    \/ BuildFirst
    \/ BuildNext
    \/ BuildDone
    \/ ToolCall
    \/ PromptReturn

Spec == Init /\ [][Next]_vars

(***************************************************************************)
(* The health sweep (agents/health.rs).                                    *)
(*                                                                         *)
(* Time is counted in seconds from the start of a probe.  What the probed  *)
(* server does is an input: latency is the time its establishment takes    *)
(* (Never: it never completes) and ok is whether it then succeeds.         *)
(***************************************************************************)
Latencies == (0..MaxLatency) \cup {Never}

\* check_ripestat_connection / check_whois_connection: Ok(()) when the
\* connection was established, the error of the attempt otherwise
check_connection(p) == IF p.ok THEN "Ok" ELSE "Err"

\* the establishment of probe p has completed p.latency seconds after its start
Completed(p) == p.latency # Never /\ p.latency <= p.elapsed

\* tokio::time::timeout(deadline, future): polls the future first and returns
\* Ok(its value) when it is ready, else Err(Elapsed) once the deadline passed
timeout(p) ==
    IF Completed(p) THEN check_connection(p)
    ELSE IF p.elapsed >= p.deadline THEN "Elapsed"
    ELSE "Pending"

\* history: which probe resolved, whether its deadline elapsed before its
\* establishment completed, and what timeout returned for it
Resolved(p) ==
    [target |-> p.target,
     late |-> (p.latency = Never \/ p.latency > p.deadline),
     outcome |-> timeout(p)]

NewProbe(target, deadline, latency, ok) ==
    [target |-> target, deadline |-> deadline, latency |-> latency, ok |-> ok, elapsed |-> 0]

\* Mutant of MatchArms: the Err(_) arm reports the elapsed deadline as an error
MatchArms_ElapsedAsError(hs, key, outcome) ==
    CASE outcome = "Ok" ->
            [hs EXCEPT !.services = Insert(hs.services, key, "healthy")]
      [] outcome = "Err" ->
            [status |-> "unhealthy", services |-> Insert(hs.services, key, "error: connect")]
      [] outcome = "Elapsed" ->
            [status |-> "unhealthy", services |-> Insert(hs.services, key, "error: connect")]

\* Mutant of MatchArms: the Ok arm writes the overall status too
MatchArms_OkRestores(hs, key, outcome) ==
    CASE outcome = "Ok" ->
            [status |-> "healthy", services |-> Insert(hs.services, key, "healthy")]
      [] outcome = "Err" ->
            [status |-> "unhealthy", services |-> Insert(hs.services, key, "error: connect")]
      [] outcome = "Elapsed" ->
            [status |-> "unhealthy", services |-> Insert(hs.services, key, "timeout")]

\* the three arms of `match ripestat_status` / `match whois_status`
MatchArms(hs, key, outcome) ==
    CASE outcome = "Ok" ->
            [hs EXCEPT !.services = Insert(hs.services, key, "healthy")]
      [] outcome = "Err" ->
            [status |-> "unhealthy", services |-> Insert(hs.services, key, "error: connect")]
      [] outcome = "Elapsed" ->
            [status |-> "unhealthy", services |-> Insert(hs.services, key, "timeout")]

\* run: health_status = {status: "healthy", services: {}}, then the RIPEstat
\* probe starts under its 3 s deadline
SweepStart ==
    /\ hpc = "idle"
    /\ health_status' = [status |-> "healthy", services |-> NoServices]
    /\ \E lat \in Latencies, ok \in BOOLEAN :
         probe' = NewProbe("ripestat_mcp", RipestatDeadline, lat, ok)
    /\ hpc' = "ripestat"
    /\ UNCHANGED <<registry, registryVars, connectVars, alertVars, raceVars, configVars, tuiVars, agentVars, probeLog, sweepResult, tpc, testId, testServer,
                   testProbe, testResponse>>

\* a second passes while the probe in flight is pending
ProbeTick ==
    /\ hpc \in {"ripestat", "whois"}
    /\ timeout(probe) = "Pending"
    /\ probe' = [probe EXCEPT !.elapsed = @ + 1]
    /\ UNCHANGED <<registry, registryVars, connectVars, alertVars, raceVars, configVars, tuiVars, agentVars, hpc, health_status, probeLog, sweepResult, tpc,
                   testId, testServer, testProbe, testResponse>>

\* Mutant of RipestatResolved: an unhealthy RIPEstat probe ends the sweep with
\* an error (a `?` on the probe)
RipestatResolved_AbortOnUnhealthy ==
    /\ hpc = "ripestat"
    /\ timeout(probe) # "Pending"
    /\ health_status' = MatchArms(health_status, "ripestat_mcp", timeout(probe))
    /\ probeLog' = Append(probeLog, Resolved(probe))
    /\ IF timeout(probe) = "Ok"
       THEN /\ \E lat \in Latencies, ok \in BOOLEAN :
                 probe' = NewProbe("whois_mcp", WhoisDeadline, lat, ok)
            /\ hpc' = "whois"
            /\ sweepResult' = sweepResult
       ELSE /\ probe' = NoProbe
            /\ hpc' = "done"
            /\ sweepResult' = "Err"
    /\ UNCHANGED <<registry, registryVars, connectVars, alertVars, raceVars, configVars, tuiVars, agentVars, tpc, testId, testServer, testProbe, testResponse>>

\* the RIPEstat probe resolves, its arm is taken, and the WHOIS probe starts
\* under its 5 s deadline
RipestatResolved ==
    /\ hpc = "ripestat"
    /\ timeout(probe) # "Pending"
    /\ health_status' = MatchArms(health_status, "ripestat_mcp", timeout(probe))
    /\ probeLog' = Append(probeLog, Resolved(probe))
    /\ \E lat \in Latencies, ok \in BOOLEAN :
         probe' = NewProbe("whois_mcp", WhoisDeadline, lat, ok)
    /\ hpc' = "whois"
    /\ UNCHANGED <<registry, registryVars, connectVars, alertVars, raceVars, configVars, tuiVars, agentVars, sweepResult, tpc, testId, testServer, testProbe,
                   testResponse>>

\* the WHOIS probe resolves and its arm is taken
WhoisResolved ==
    /\ hpc = "whois"
    /\ timeout(probe) # "Pending"
    /\ health_status' = MatchArms(health_status, "whois_mcp", timeout(probe))
    /\ probeLog' = Append(probeLog, Resolved(probe))
    /\ probe' = NoProbe
    /\ hpc' = "llm"
    /\ UNCHANGED <<registry, registryVars, connectVars, alertVars, raceVars, configVars, tuiVars, agentVars, sweepResult, tpc, testId, testServer, testProbe,
                   testResponse>>

\* check_llm_client is "healthy" whatever from_env gives; Ok(health_status)
SweepReturn ==
    /\ hpc = "llm"
    /\ health_status' = [health_status EXCEPT
                            !.services = Insert(health_status.services, "llm_client", "healthy")]
    /\ sweepResult' = "Ok"
    /\ hpc' = "done"
    /\ UNCHANGED <<registry, registryVars, connectVars, alertVars, raceVars, configVars, tuiVars, agentVars, probe, probeLog, tpc, testId, testServer, testProbe,
                   testResponse>>

\* the registries all of whose rows can be read back
ReadableRegistries == {R \in Registries : \A r \in R : from_row(r).ok}

HealthInit ==
    /\ registry \in ReadableRegistries
    /\ agent = "AlertAnalyzer"
    /\ AgentIdle
    /\ HealthIdle
    /\ ConnectIdle
    /\ AlertIdle
    /\ RaceIdle
    /\ ConfigIdle
    /\ TuiIdle
    /\ RegistryIdle

HealthNext ==
    \/ SweepStart
    \/ ProbeTick
    \/ RipestatResolved
    \/ WhoisResolved
    \/ SweepReturn

HealthSpec == HealthInit /\ [][HealthNext]_vars

(***************************************************************************)
(* The on-demand test of one server: POST /api/mcps/{id}/test              *)
(* (routes/mcp.rs test_mcp_server, mcp_clients.rs test_connection).        *)
(***************************************************************************)
\* get_mcp_server_by_id: SELECT ... WHERE id = ?, then from_row
get_mcp_server_by_id(R, id, dbOk) ==
    LET found == {r \in R : r.id = id}
    IN  IF ~dbOk THEN [ok |-> FALSE, server |-> {}]
        ELSE IF found = {} THEN [ok |-> TRUE, server |-> {}]
        ELSE LET row == CHOOSE r \in found : TRUE
             IN  IF from_row(row).ok
                 THEN [ok |-> TRUE, server |-> {from_row(row).server}]
                 ELSE [ok |-> FALSE, server |-> {}]

\* test_connection: let conn = connect(server).await?; Ok(conn.tool_count())
test_connection(server, resp) ==
    LET r == connect(server, resp)
    IN  IF r.ok THEN [ok |-> TRUE, tool_count |-> Len(r.conn.tools)]
        ELSE [ok |-> FALSE, error |-> r.err]

\* TestConnectionResponse with the status code of the reply; an Option is the
\* empty set (None) or a set of one value (Some)
TestConnectionResponse(status, success, tool_count, error) ==
    [status |-> status, success |-> success, tool_count |-> tool_count, error |-> error]

\* the handler reads the server; a database error is a 500, no row a 404,
\* otherwise test_connection is awaited
TestStart ==
    /\ tpc = "idle"
    /\ \E id \in 0..MaxServers, dbOk \in BOOLEAN :
         LET got == get_mcp_server_by_id(registry, id, dbOk)
         IN  /\ testId' = id
             /\ testServer' = got.server
             /\ IF ~got.ok
                THEN /\ testResponse' = TestConnectionResponse(500, FALSE, {}, {"Database error"})
                     /\ tpc' = "done"
                     /\ testProbe' = testProbe
                ELSE IF got.server = {}
                THEN /\ testResponse' = TestConnectionResponse(404, FALSE, {}, {"Server not found"})
                     /\ tpc' = "done"
                     /\ testProbe' = testProbe
                ELSE /\ \E lat \in Latencies, resp \in Responses(CHOOSE x \in got.server : TRUE) :
                          testProbe' = [latency |-> lat, resp |-> resp, elapsed |-> 0]
                     /\ tpc' = "connecting"
                     /\ testResponse' = testResponse
    /\ UNCHANGED <<registry, registryVars, connectVars, alertVars, raceVars, configVars, tuiVars, agentVars, hpc, health_status, probe, probeLog, sweepResult>>

\* a second passes while connect is awaited and the server has yet to answer
TestTick ==
    /\ tpc = "connecting"
    /\ testProbe.latency # Never
    /\ testProbe.elapsed < testProbe.latency
    /\ testProbe' = [testProbe EXCEPT !.elapsed = @ + 1]
    /\ UNCHANGED <<registry, registryVars, connectVars, alertVars, raceVars, configVars, tuiVars, agentVars, hpc, health_status, probe, probeLog, sweepResult,
                   tpc, testId, testServer, testResponse>>

\* connect has completed: the Ok and the Err arm of `match test_connection(&server).await`
TestReturn ==
    /\ tpc = "connecting"
    /\ Completed(testProbe)
    /\ LET r == test_connection(CHOOSE x \in testServer : TRUE, testProbe.resp)
       IN  testResponse' = IF r.ok
                           THEN TestConnectionResponse(200, TRUE, {r.tool_count}, {})
                           ELSE TestConnectionResponse(200, FALSE, {}, {r.error})
    /\ tpc' = "done"
    /\ UNCHANGED <<registry, registryVars, connectVars, alertVars, raceVars, configVars, tuiVars, agentVars, hpc, health_status, probe, probeLog, sweepResult,
                   testId, testServer, testProbe>>

TestInit ==
    /\ registry \in Registries
    /\ agent = "AlertAnalyzer"
    /\ AgentIdle
    /\ HealthIdle
    /\ ConnectIdle
    /\ AlertIdle
    /\ RaceIdle
    /\ ConfigIdle
    /\ TuiIdle
    /\ RegistryIdle

TestNext ==
    \/ TestStart
    \/ TestTick
    \/ TestReturn

TestSpec == TestInit /\ [][TestNext]_vars

\* the handler is a task of the runtime: a step it can take, it takes
FairTestSpec == TestSpec /\ WF_vars(TestNext)

(***************************************************************************)
(* The registry API (database/db.rs, called by the handlers of             *)
(* routes/mcp.rs): create, update, delete, enable and disable of the       *)
(* built-in servers.  A statement fails here only on a constraint of the   *)
(* table; a failure of the database itself is not a step of this part.     *)
(***************************************************************************)
\* native_mcps::get_native_mcp_servers
get_native_mcp_servers ==
    <<CreateHttp("ripestat", "RIPEstat MCP Server for BGP and routing information",
                 "https://mcp-ripestat.taihen.org/mcp", TRUE),
      CreateStdio("whois", "WHOIS MCP Server for domain and IP lookups", "uvx",
                  <<"--from", "git+https://github.com/dadepo/whois-mcp.git", "whois-mcp">>,
                  NoEnv, TRUE)>>

\* Mutant of validate: the Http arm does not look at the url
validate_NoUrlCheck(server) ==
    IF server.kind = "Http"
    THEN IF server.name = "" THEN [ok |-> FALSE, err |-> "Name is required"]
         ELSE [ok |-> TRUE, err |-> ""]
    ELSE IF server.name = "" THEN [ok |-> FALSE, err |-> "Name is required"]
         ELSE IF server.command = ""
         THEN [ok |-> FALSE, err |-> "Stdio transport requires a non-empty command"]
         ELSE [ok |-> TRUE, err |-> ""]

\* CreateMcpServer::validate
validate(server) ==
    IF server.kind = "Http"
    THEN IF server.name = "" THEN [ok |-> FALSE, err |-> "Name is required"]
         ELSE IF server.url = ""
         THEN [ok |-> FALSE, err |-> "HTTP transport requires a non-empty URL"]
         ELSE [ok |-> TRUE, err |-> ""]
    ELSE IF server.name = "" THEN [ok |-> FALSE, err |-> "Name is required"]
         ELSE IF server.command = ""
         THEN [ok |-> FALSE, err |-> "Stdio transport requires a non-empty command"]
         ELSE [ok |-> TRUE, err |-> ""]

\* if args.is_empty() { None } else { Some(serde_json::to_string(args)?) }
args_json(args) == IF args = <<>> THEN {} ELSE {to_string_vec(args)}

\* if env.is_empty() { None } else { Some(serde_json::to_string(env)?) }
env_json(env, order) == IF DOMAIN env = {} THEN {} ELSE {to_string_map(env, order)}

\* "Extract fields based on variant": the values bound to the INSERT, the id
\* still to be given
Extract(server, is_native, order) ==
    IF server.kind = "Http"
    THEN Row(0, server.name, server.description, "http", server.url, NULL, {}, {},
             server.enabled, is_native)
    ELSE Row(0, server.name, server.description, "stdio", NULL, server.command,
             args_json(server.args), env_json(server.env, order), server.enabled, is_native)

\* INSERT INTO mcp_servers (...) VALUES (...): name is UNIQUE, id is
\* AUTOINCREMENT.  st is the table and its sequence.
INSERT(st, values) ==
    IF \E r \in st.rows : r.name = values.name
    THEN [ok |-> FALSE, err |-> "UNIQUE constraint", rows |-> st.rows, seq |-> st.seq, id |-> 0]
    ELSE [ok |-> TRUE, err |-> "", rows |-> st.rows \cup {[values EXCEPT !.id = st.seq + 1]},
          seq |-> st.seq + 1, id |-> st.seq + 1]

\* Mutant of create_mcp_server: args_json and env_json are bound to each
\* other's column
create_mcp_server_SwappedBinds(st, server, order) ==
    LET v == validate(server)
        x == Extract(server, FALSE, order)
        ins == INSERT(st, [x EXCEPT !.args = x.env, !.env = x.args])
        got == get_mcp_server_by_id(ins.rows, ins.id, TRUE)
    IN  IF ~v.ok
        THEN [ok |-> FALSE, err |-> "Validation error", rows |-> st.rows, seq |-> st.seq,
              id |-> 0, result |-> {}]
        ELSE IF ~ins.ok
        THEN [ok |-> FALSE, err |-> ins.err, rows |-> st.rows, seq |-> st.seq,
              id |-> 0, result |-> {}]
        ELSE IF ~got.ok
        THEN [ok |-> FALSE, err |-> "Failed to parse MCP server", rows |-> ins.rows,
              seq |-> ins.seq, id |-> ins.id, result |-> {}]
        ELSE [ok |-> TRUE, err |-> "", rows |-> ins.rows, seq |-> ins.seq, id |-> ins.id,
              result |-> got.server]

\* Mutant of create_mcp_server: the INSERT binds 1 to is_native
create_mcp_server_NativeFlag(st, server, order) ==
    LET v == validate(server)
        ins == INSERT(st, Extract(server, TRUE, order))
        got == get_mcp_server_by_id(ins.rows, ins.id, TRUE)
    IN  IF ~v.ok
        THEN [ok |-> FALSE, err |-> "Validation error", rows |-> st.rows, seq |-> st.seq,
              id |-> 0, result |-> {}]
        ELSE IF ~ins.ok
        THEN [ok |-> FALSE, err |-> ins.err, rows |-> st.rows, seq |-> st.seq,
              id |-> 0, result |-> {}]
        ELSE IF ~got.ok
        THEN [ok |-> FALSE, err |-> "Failed to parse MCP server", rows |-> ins.rows,
              seq |-> ins.seq, id |-> ins.id, result |-> {}]
        ELSE [ok |-> TRUE, err |-> "", rows |-> ins.rows, seq |-> ins.seq, id |-> ins.id,
              result |-> got.server]

\* create_mcp_server: validate, INSERT with is_native = 0, then read the row back
create_mcp_server(st, server, order) ==
    LET v == validate(server)
        ins == INSERT(st, Extract(server, FALSE, order))
        got == get_mcp_server_by_id(ins.rows, ins.id, TRUE)
    IN  IF ~v.ok
        THEN [ok |-> FALSE, err |-> "Validation error", rows |-> st.rows, seq |-> st.seq,
              id |-> 0, result |-> {}]
        ELSE IF ~ins.ok
        THEN [ok |-> FALSE, err |-> ins.err, rows |-> st.rows, seq |-> st.seq,
              id |-> 0, result |-> {}]
        ELSE IF ~got.ok
        THEN [ok |-> FALSE, err |-> "Failed to parse MCP server", rows |-> ins.rows,
              seq |-> ins.seq, id |-> ins.id, result |-> {}]
        ELSE [ok |-> TRUE, err |-> "", rows |-> ins.rows, seq |-> ins.seq, id |-> ins.id,
              result |-> got.server]

\* Option::unwrap_or / Option::or over an Option of the model
OptOr(opt, default) == IF opt = {} THEN default ELSE CHOOSE x \in opt : TRUE

\* Mutant of UpdatedValues: enabled falls back to the column's default, not
\* to the existing value (update.enabled.unwrap_or(true))
UpdatedValues_EnabledDefault(old, existing, update, order) ==
    LET existing_url == IF existing.kind = "Http" THEN existing.url ELSE NULL
        existing_command == IF existing.kind = "Stdio" THEN existing.command ELSE NULL
        existing_args == IF existing.kind = "Stdio" THEN existing.args ELSE <<>>
        existing_env == IF existing.kind = "Stdio" THEN existing.env ELSE NoEnv
    IN  [old EXCEPT
            !.name = OptOr(update.name, existing.name),
            !.description = OptOr(update.description, existing.description),
            !.url = OptOr(update.url, existing_url),
            !.command = OptOr(update.command, existing_command),
            !.args = args_json(OptOr(update.args, existing_args)),
            !.env = env_json(OptOr(update.env, existing_env), order),
            !.enabled = OptOr(update.enabled, TRUE)]

\* "Build updated values, using existing values as defaults": the values of
\* the UPDATE for the row old whose parsed form is existing
UpdatedValues(old, existing, update, order) ==
    LET existing_url == IF existing.kind = "Http" THEN existing.url ELSE NULL
        existing_command == IF existing.kind = "Stdio" THEN existing.command ELSE NULL
        existing_args == IF existing.kind = "Stdio" THEN existing.args ELSE <<>>
        existing_env == IF existing.kind = "Stdio" THEN existing.env ELSE NoEnv
    IN  [old EXCEPT
            !.name = OptOr(update.name, existing.name),
            !.description = OptOr(update.description, existing.description),
            !.url = OptOr(update.url, existing_url),
            !.command = OptOr(update.command, existing_command),
            !.args = args_json(OptOr(update.args, existing_args)),
            !.env = env_json(OptOr(update.env, existing_env), order),
            !.enabled = OptOr(update.enabled, existing.enabled)]

\* Mutant of UPDATE: the column name without its UNIQUE constraint
UPDATE_NoUnique(rows, old, new) ==
    [ok |-> TRUE, rows |-> (rows \ {old}) \cup {new}]

\* UPDATE mcp_servers SET ... WHERE id = ?: name is UNIQUE
UPDATE(rows, old, new) ==
    IF \E r \in rows : r.id # old.id /\ r.name = new.name
    THEN [ok |-> FALSE, rows |-> rows]
    ELSE [ok |-> TRUE, rows |-> (rows \ {old}) \cup {new}]

\* Mutant of update_mcp_server: the UPDATE also sets transport_type, to the
\* kind whose field the request supplies
update_mcp_server_KindFromFields(rows, id, update, order) ==
    LET first == get_mcp_server_by_id(rows, id, TRUE)
    IN  IF ~first.ok
        THEN [ok |-> FALSE, err |-> "Failed to parse MCP server", rows |-> rows,
              wrote |-> FALSE, result |-> {}]
        ELSE IF first.server = {}
        THEN [ok |-> TRUE, err |-> "", rows |-> rows, wrote |-> FALSE, result |-> {}]
        ELSE LET existing == CHOOSE x \in first.server : TRUE
                 old == CHOOSE r \in rows : r.id = id
                 new == UpdatedValues(old, existing, update, order)
                 upd == UPDATE(rows, old,
                               [new EXCEPT !.transport_type =
                                    IF update.command # {} THEN "stdio"
                                    ELSE IF update.url # {} THEN "http" ELSE @])
                 got == get_mcp_server_by_id(upd.rows, id, TRUE)
             IN  IF ~upd.ok
                 THEN [ok |-> FALSE, err |-> "UNIQUE constraint", rows |-> rows,
                       wrote |-> FALSE, result |-> {}]
                 ELSE IF ~got.ok
                 THEN [ok |-> FALSE, err |-> "Failed to parse MCP server", rows |-> upd.rows,
                       wrote |-> TRUE, result |-> {}]
                 ELSE [ok |-> TRUE, err |-> "", rows |-> upd.rows, wrote |-> TRUE,
                       result |-> got.server]

\* update_mcp_server: read the row, Ok(None) when there is none, UPDATE every
\* column but transport_type and is_native, then read the row back
update_mcp_server(rows, id, update, order) ==
    LET first == get_mcp_server_by_id(rows, id, TRUE)
    IN  IF ~first.ok
        THEN [ok |-> FALSE, err |-> "Failed to parse MCP server", rows |-> rows,
              wrote |-> FALSE, result |-> {}]
        ELSE IF first.server = {}
        THEN [ok |-> TRUE, err |-> "", rows |-> rows, wrote |-> FALSE, result |-> {}]
        ELSE LET existing == CHOOSE x \in first.server : TRUE
                 old == CHOOSE r \in rows : r.id = id
                 upd == UPDATE(rows, old, UpdatedValues(old, existing, update, order))
                 got == get_mcp_server_by_id(upd.rows, id, TRUE)
             IN  IF ~upd.ok
                 THEN [ok |-> FALSE, err |-> "UNIQUE constraint", rows |-> rows,
                       wrote |-> FALSE, result |-> {}]
                 ELSE IF ~got.ok
                 THEN [ok |-> FALSE, err |-> "Failed to parse MCP server", rows |-> upd.rows,
                       wrote |-> TRUE, result |-> {}]
                 ELSE [ok |-> TRUE, err |-> "", rows |-> upd.rows, wrote |-> TRUE,
                       result |-> got.server]

\* Mutant of delete_mcp_server: Ok(rows_affected >= 0)
delete_mcp_server_AlwaysTrue(rows, id) ==
    [rows |-> {r \in rows : r.id # id}, deleted |-> TRUE]

\* delete_mcp_server: DELETE FROM mcp_servers WHERE id = ?; Ok(rows_affected > 0)
delete_mcp_server(rows, id) ==
    [rows |-> {r \in rows : r.id # id}, deleted |-> \E r \in rows : r.id = id]

\* Mutant of EnableOne: no look-up, and the row is written with INSERT OR
\* REPLACE (the row of the same name is deleted and a new one inserted)
EnableOne_Replace(st, server, order) ==
    LET ins == INSERT([rows |-> {r \in st.rows : r.name # server.name}, seq |-> st.seq],
                      Extract(server, TRUE, order))
    IN  [ok |-> ins.ok, err |-> ins.err, rows |-> ins.rows, seq |-> ins.seq]

\* Mutant of EnableOne: a built-in row that exists is written again from its
\* descriptor (an upsert)
EnableOne_Reset(st, server, order) ==
    IF \E r \in st.rows : r.name = server.name /\ r.is_native
    THEN LET old == CHOOSE r \in st.rows : r.name = server.name /\ r.is_native
             new == [Extract(server, TRUE, order) EXCEPT !.id = old.id]
         IN  [st EXCEPT !.rows = (st.rows \ {old}) \cup {new}]
    ELSE LET ins == INSERT([rows |-> st.rows, seq |-> st.seq], Extract(server, TRUE, order))
         IN  [ok |-> ins.ok, err |-> ins.err, rows |-> ins.rows, seq |-> ins.seq]

\* the body of `for server in native_servers`: SELECT id ... WHERE name = ? AND
\* is_native = 1; continue when there is one, else INSERT with is_native = 1
\* (the `?` of the INSERT returns its error)
EnableOne(st, server, order) ==
    IF \E r \in st.rows : r.name = server.name /\ r.is_native
    THEN st
    ELSE LET ins == INSERT([rows |-> st.rows, seq |-> st.seq], Extract(server, TRUE, order))
         IN  [ok |-> ins.ok, err |-> ins.err, rows |-> ins.rows, seq |-> ins.seq]

\* the loop over the built-in descriptors, left at the first error
RECURSIVE EnableLoop(_, _, _)
EnableLoop(st, native_servers, order) ==
    IF native_servers = <<>> \/ ~st.ok THEN st
    ELSE EnableLoop(EnableOne(st, Head(native_servers), order), Tail(native_servers), order)

\* Mutant of enable_native_mcp_servers: the else branch deletes the rows that
\* have the name of a built-in descriptor
enable_native_mcp_servers_DeleteByName(st, enabled, order) ==
    IF enabled
    THEN EnableLoop([ok |-> TRUE, err |-> "", rows |-> st.rows, seq |-> st.seq],
                    get_native_mcp_servers, order)
    ELSE [ok |-> TRUE, err |-> "",
          rows |-> {r \in st.rows :
                      \A i \in 1..Len(get_native_mcp_servers) :
                          r.name # get_native_mcp_servers[i].name},
          seq |-> st.seq]

\* enable_native_mcp_servers: the loop when enabled, else
\* DELETE FROM mcp_servers WHERE is_native = 1
enable_native_mcp_servers(st, enabled, order) ==
    IF enabled
    THEN EnableLoop([ok |-> TRUE, err |-> "", rows |-> st.rows, seq |-> st.seq],
                    get_native_mcp_servers, order)
    ELSE [ok |-> TRUE, err |-> "", rows |-> {r \in st.rows : ~r.is_native}, seq |-> st.seq]

(***************************************************************************)
(* The requests of the registry API the model draws from.                  *)
(***************************************************************************)
KeyOrders == {<<"K", "L">>, <<"L", "K">>}

\* the orders that tell the texts of m apart: one when m has fewer than two keys
OrdersFor(m) == IF Cardinality(DOMAIN m) < 2 THEN {<<"K", "L">>} ELSE KeyOrders

TwoKeys == [k \in {"K", "L"} |-> IF k = "K" THEN "v" ELSE "w"]

CreateRequests ==
    {CreateHttp("", NULL, "https://h/mcp", TRUE),
     CreateHttp("alpha", NULL, "", TRUE),
     CreateHttp("alpha", NULL, "https://h/mcp", TRUE),
     CreateHttp("ripestat", NULL, "https://h/mcp", TRUE),
     CreateStdio("", NULL, "uvx", <<>>, NoEnv, TRUE),
     CreateStdio("alpha", NULL, "", <<>>, NoEnv, TRUE),
     CreateStdio("alpha", NULL, "uvx", <<>>, NoEnv, TRUE),
     CreateStdio("alpha", NULL, "uvx", <<>>, TwoKeys, FALSE),
     CreateStdio("alpha", NULL, "uvx", <<"-q", "x">>, TwoKeys, TRUE),
     CreateStdio("whois", NULL, "uvx", <<"-q", "x">>, NoEnv, TRUE)}

UpdateRequests ==
    {UpdateMcpServer({}, {}, {""}, {}, {}, {}, {}),
     UpdateMcpServer({}, {}, {"https://other/mcp"}, {}, {}, {}, {}),
     UpdateMcpServer({}, {}, {}, {""}, {}, {}, {}),
     UpdateMcpServer({}, {}, {}, {"sh"}, {<<"-c">>}, {[k \in {"K"} |-> "u"]}, {}),
     UpdateMcpServer({"alpha"}, {}, {}, {}, {}, {}, {}),
     UpdateMcpServer({}, {"edited"}, {}, {}, {}, {}, {FALSE})}

\* the env an update of row id writes when the row can be read, NoEnv otherwise
EnvWritten(id, update) ==
    LET got == get_mcp_server_by_id(registry, id, TRUE)
        existing == CHOOSE x \in got.server : TRUE
    IN  IF update.env # {} THEN CHOOSE e \in update.env : TRUE
        ELSE IF got.ok /\ got.server # {} /\ existing.kind = "Stdio" THEN existing.env
        ELSE NoEnv

\* the ids a request path may name: those of the rows, and one of no row
Ids == {r.id : r \in registry} \cup {sqlite_sequence + 1}

(***************************************************************************)
(* The calls of the registry API.                                          *)
(***************************************************************************)
\* history: the rows with the native flag
NativeRows(rows) == {r \in rows : r.is_native}

\* history: the row has the values enable_native_mcp_servers inserts for a descriptor
IsDescriptor(r) ==
    \E i \in 1..Len(get_native_mcp_servers) :
        [r EXCEPT !.id = 0] = Extract(get_native_mcp_servers[i], TRUE, <<"K", "L">>)

\* history: a disable followed by an enable empties edited; a row with the
\* native flag that differs from its descriptor puts its built-in name in
Edited(rows, made, op, prev) ==
    (IF op = "enable" /\ prev = "disable" THEN {} ELSE edited)
        \cup {made[r.id].name : r \in {x \in NativeRows(rows) : ~IsDescriptor(x)}}

\* history: the ids of new take the entry made for them
Record(new, entry) ==
    [i \in DOMAIN created \cup new |-> IF i \in DOMAIN created THEN created[i] ELSE entry[i]]

\* POST /api/mcps
CreateCall ==
    /\ calls < MaxCalls
    /\ \E server \in CreateRequests :
       \E order \in OrdersFor(server.env) :
         \E res \in {create_mcp_server([rows |-> registry, seq |-> sqlite_sequence], server, order)} :
             /\ registry' = res.rows
             /\ sqlite_sequence' = res.seq
             /\ lastOp' = [op |-> "create", id |-> res.id, create |-> server,
                           update |-> NoUpdate, ok |-> res.ok, err |-> res.err,
                           wrote |-> res.id # 0, result |-> res.result]
             /\ LET new == {r.id : r \in res.rows} \ {r.id : r \in registry}
                IN  created' = Record(new, [i \in new |-> [kind |-> server.kind,
                                                            name |-> server.name,
                                                            native |-> FALSE]])
             /\ edited' = Edited(res.rows, created', "create", lastOp.op)
    /\ before' = registry
    /\ prevOp' = lastOp.op
    /\ calls' = calls + 1
    /\ UNCHANGED <<agentVars, healthVars, connectVars, alertVars, raceVars, configVars, tuiVars>>

\* PUT /api/mcps/{id}
UpdateCall ==
    /\ calls < MaxCalls
    /\ \E id \in Ids, update \in UpdateRequests :
       \E order \in OrdersFor(EnvWritten(id, update)) :
         \E res \in {update_mcp_server(registry, id, update, order)} :
             /\ registry' = res.rows
             /\ lastOp' = [op |-> "update", id |-> id, create |-> NoCreate,
                           update |-> update, ok |-> res.ok, err |-> res.err,
                           wrote |-> res.wrote, result |-> res.result]
             /\ edited' = Edited(res.rows, created, "update", lastOp.op)
    /\ before' = registry
    /\ prevOp' = lastOp.op
    /\ calls' = calls + 1
    /\ UNCHANGED <<agentVars, healthVars, connectVars, alertVars, raceVars, configVars, tuiVars, sqlite_sequence, created>>

\* DELETE /api/mcps/{id}
DeleteCall ==
    /\ calls < MaxCalls
    /\ \E id \in Ids :
         \E res \in {delete_mcp_server(registry, id)} :
             /\ registry' = res.rows
             /\ lastOp' = [op |-> "delete", id |-> id, create |-> NoCreate,
                           update |-> NoUpdate, ok |-> TRUE, err |-> "",
                           wrote |-> res.deleted, result |-> {}]
             /\ edited' = Edited(res.rows, created, "delete", lastOp.op)
    /\ before' = registry
    /\ prevOp' = lastOp.op
    /\ calls' = calls + 1
    /\ UNCHANGED <<agentVars, healthVars, connectVars, alertVars, raceVars, configVars, tuiVars, sqlite_sequence, created>>

\* POST /api/mcps/enable-native
EnableNativeCall ==
    /\ calls < MaxCalls
    /\ \E enabled \in BOOLEAN, order \in OrdersFor(NoEnv) :
         \E res \in {enable_native_mcp_servers([rows |-> registry, seq |-> sqlite_sequence],
                                               enabled, order)} :
             /\ registry' = res.rows
             /\ sqlite_sequence' = res.seq
             /\ lastOp' = [op |-> IF enabled THEN "enable" ELSE "disable", id |-> 0,
                           create |-> NoCreate, update |-> NoUpdate, ok |-> res.ok,
                           err |-> res.err, wrote |-> res.rows # registry, result |-> {}]
             /\ LET new == {r.id : r \in res.rows} \ {r.id : r \in registry}
                    descriptor(i) ==
                        CHOOSE d \in {get_native_mcp_servers[k] : k \in 1..Len(get_native_mcp_servers)} :
                            d.name = (CHOOSE r \in res.rows : r.id = i).name
                IN  created' = Record(new, [i \in new |-> [kind |-> descriptor(i).kind,
                                                            name |-> descriptor(i).name,
                                                            native |-> TRUE]])
             /\ edited' = Edited(res.rows, created', IF enabled THEN "enable" ELSE "disable",
                                 lastOp.op)
    /\ before' = registry
    /\ prevOp' = lastOp.op
    /\ calls' = calls + 1
    /\ UNCHANGED <<agentVars, healthVars, connectVars, alertVars, raceVars, configVars, tuiVars>>

\* init_database creates the table, without a row; the table the calls start
\* from is that one, or the one on which the built-in servers were enabled
EnabledOnce ==
    enable_native_mcp_servers([rows |-> {}, seq |-> 0], TRUE, <<"K", "L">>)

RegistryInit ==
    /\ agent = "AlertAnalyzer"
    /\ AgentIdle
    /\ HealthIdle
    /\ ConnectIdle
    /\ AlertIdle
    /\ RaceIdle
    /\ ConfigIdle
    /\ TuiIdle
    /\ lastOp = NoOp
    /\ before = {}
    /\ prevOp = "none"
    /\ calls = 0
    /\ \/ /\ registry = {}
          /\ sqlite_sequence = 0
          /\ created = NoneCreated
       \/ /\ registry = EnabledOnce.rows
          /\ sqlite_sequence = EnabledOnce.seq
          /\ created = [i \in {r.id : r \in EnabledOnce.rows} |->
                           [kind |-> from_row(CHOOSE r \in EnabledOnce.rows : r.id = i).server.kind,
                            name |-> (CHOOSE r \in EnabledOnce.rows : r.id = i).name,
                            native |-> TRUE]]
    /\ edited = {}

RegistryNext ==
    \/ CreateCall
    \/ UpdateCall
    \/ DeleteCall
    \/ EnableNativeCall

RegistrySpec == RegistryInit /\ [][RegistryNext]_vars

(***************************************************************************)
(* One call of connect (mcp_clients.rs), on its own.                       *)
(***************************************************************************)
\* the servers get_mcp_server_by_id and get_enabled_mcp_servers can hand to
\* connect: the parsed form of a readable row
ConnectServers ==
    {from_row(r).server : r \in {x \in UNION Registries : from_row(x).ok}}

ConnectInit ==
    /\ registry = {}
    /\ agent = "AlertAnalyzer"
    /\ AgentIdle
    /\ HealthIdle
    /\ RegistryIdle
    /\ AlertIdle
    /\ RaceIdle
    /\ ConfigIdle
    /\ TuiIdle
    /\ \E server \in ConnectServers :
       \E resp \in Responses(server) :
         connectCall = [NoConnectCall EXCEPT !.server = {server}, !.resp = resp]

\* connect(&server).await, from the call to the return
ConnectCall ==
    /\ ~connectCall.returned
    /\ \E server \in connectCall.server :
       \E r \in {connect(server, connectCall.resp)} :
         connectCall' = [connectCall EXCEPT !.returned = TRUE,
                                            !.ok = r.ok,
                                            !.conn = IF r.ok THEN {r.conn} ELSE {},
                                            !.err = IF r.ok THEN "" ELSE r.err,
                                            !.steps = r.steps]
    /\ UNCHANGED <<registry, agentVars, healthVars, registryVars, alertVars, raceVars, configVars, tuiVars>>

ConnectSpec == ConnectInit /\ [][ConnectCall]_vars

(***************************************************************************)
(* connect_all_enabled while the registry API is called (the handlers run  *)
(* as concurrent tasks over one pool): a call of the API commits between   *)
(* two steps of the aggregation.                                           *)
(***************************************************************************)
\* the aggregation is between its read and its return
Aggregating == pc = "connecting"

MidCreate == Aggregating /\ calls < MaxMidCalls /\ CreateCall

MidUpdate == Aggregating /\ calls < MaxMidCalls /\ UpdateCall

MidDelete == Aggregating /\ calls < MaxMidCalls /\ DeleteCall

MidEnableNative == Aggregating /\ calls < MaxMidCalls /\ EnableNativeCall

ConcurrentNext ==
    \/ ReadEnabled
    \/ ConnectNext
    \/ ConnectAllReturn
    \/ MidCreate
    \/ MidUpdate
    \/ MidDelete
    \/ MidEnableNative

ConcurrentSpec == RegistryInit /\ [][ConcurrentNext]_vars

(***************************************************************************)
(* Alerts and their chat messages (database/db.rs, routes/alerts.rs).      *)
(*                                                                         *)
(* A row of alerts is its id, a row of chat_messages its id, alert_id and  *)
(* role: no operation of the model reads the other columns.  Foreign keys  *)
(* are enforced on the pool's connections, as test_cascade_delete and      *)
(* test_delete_alert_cascade_chat_messages observe.                        *)
(***************************************************************************)
\* INSERT INTO alerts (...) VALUES (...) RETURNING id
InsertAlert(st) ==
    [alerts |-> st.alerts \cup {[id |-> st.seq + 1]}, seq |-> st.seq + 1, id |-> st.seq + 1]

\* insert_chat_message: FOREIGN KEY (alert_id) REFERENCES alerts(id)
insert_chat_message(st, alert_id, role) ==
    IF ~\E a \in st.alerts : a.id = alert_id
    THEN [ok |-> FALSE, err |-> "FOREIGN KEY constraint failed",
          messages |-> st.messages, seq |-> st.seq, id |-> 0]
    ELSE [ok |-> TRUE, err |-> "",
          messages |-> st.messages \cup {[id |-> st.seq + 1, alert_id |-> alert_id, role |-> role]},
          seq |-> st.seq + 1, id |-> st.seq + 1]

\* get_alert_for_chat: the row of that id, or None
get_alert_for_chat(rows, id) == {a \in rows : a.id = id}

\* Mutant of delete_alert: the chat messages of the alert are left (the
\* foreign key without ON DELETE CASCADE and not enforced)
delete_alert_NoCascade(st, id) ==
    [alerts |-> {a \in st.alerts : a.id # id},
     messages |-> st.messages,
     deleted |-> \E a \in st.alerts : a.id = id]

\* delete_alert: DELETE FROM alerts WHERE id = ?, ON DELETE CASCADE on
\* chat_messages.alert_id; Ok(rows_affected > 0)
delete_alert(st, id) ==
    [alerts |-> {a \in st.alerts : a.id # id},
     messages |-> {m \in st.messages : m.alert_id # id},
     deleted |-> \E a \in st.alerts : a.id = id]

AlertOp(op, id, ok) ==
    [op |-> op, id |-> id, ok |-> ok, alerts |-> alerts, chat_messages |-> chat_messages]

AlertIds == 1..(MaxAlerts + 1)

\* SseEvent, as sent on state.tx
Error == [type |-> "error", alert_id |-> 0, message_id |-> 0]

NewAlert(alert_id) == [type |-> "new_alert", alert_id |-> alert_id, message_id |-> 0]

ChatMessage(alert_id, message_id) ==
    [type |-> "chat_message", alert_id |-> alert_id, message_id |-> message_id]

AlertDeleted(alert_id) == [type |-> "alert_deleted", alert_id |-> alert_id, message_id |-> 0]

\* Mutant of ProcessAlert: the Err arm broadcasts the new_alert event too
ProcessAlert_NotifyOnError ==
    /\ alert_sequence < MaxAlerts
    /\ \E relevant \in BOOLEAN, agentOk \in BOOLEAN :
         IF ~relevant
         THEN /\ events' = <<Error>>
              /\ alertOp' = AlertOp("ignored", 0, FALSE)
              /\ UNCHANGED <<alerts, alert_sequence>>
         ELSE IF ~agentOk
         THEN /\ events' = <<Error, NewAlert(0)>>
              /\ alertOp' = AlertOp("process", 0, FALSE)
              /\ UNCHANGED <<alerts, alert_sequence>>
         ELSE \E res \in {InsertAlert([alerts |-> alerts, seq |-> alert_sequence])} :
                /\ alerts' = res.alerts
                /\ alert_sequence' = res.seq
                /\ events' = <<NewAlert(res.id)>>
                /\ alertOp' = AlertOp("process", res.id, TRUE)
    /\ UNCHANGED <<registry, agentVars, healthVars, registryVars, connectVars, raceVars,
                   configVars, tuiVars, chat_messages, message_sequence, chats>>

\* process_alert: an alert that is not relevant is answered with an Error
\* event; else AlertAnalyzer::run is awaited: its Ok stores the alert and
\* broadcasts NewAlert with the id of the row, its Err broadcasts Error
ProcessAlert ==
    /\ alert_sequence < MaxAlerts
    /\ \E relevant \in BOOLEAN, agentOk \in BOOLEAN :
         IF ~relevant
         THEN /\ events' = <<Error>>
              /\ alertOp' = AlertOp("ignored", 0, FALSE)
              /\ UNCHANGED <<alerts, alert_sequence>>
         ELSE IF ~agentOk
         THEN /\ events' = <<Error>>
              /\ alertOp' = AlertOp("process", 0, FALSE)
              /\ UNCHANGED <<alerts, alert_sequence>>
         ELSE \E res \in {InsertAlert([alerts |-> alerts, seq |-> alert_sequence])} :
                /\ alerts' = res.alerts
                /\ alert_sequence' = res.seq
                /\ events' = <<NewAlert(res.id)>>
                /\ alertOp' = AlertOp("process", res.id, TRUE)
    /\ UNCHANGED <<registry, agentVars, healthVars, registryVars, connectVars, raceVars,
                   configVars, tuiVars, chat_messages, message_sequence, chats>>

\* the alerts a chat_with_alert handler is in flight for
ChatIds == {c.alert_id : c \in chats}

\* chat_with_alert, get_alert_for_chat: 404 without the alert
ChatLookup ==
    /\ message_sequence + 2 * (Cardinality(chats) + 1) <= MaxMessages
    /\ \E id \in AlertIds \ ChatIds :
         IF get_alert_for_chat(alerts, id) = {}
         THEN /\ alertOp' = AlertOp("chat", id, FALSE)
              /\ chats' = chats
         ELSE /\ alertOp' = AlertOp("chat", id, TRUE)
              /\ chats' = chats \cup {[alert_id |-> id, at |-> "found", user_message |-> 0]}
    /\ events' = <<>>
    /\ UNCHANGED <<registry, agentVars, healthVars, registryVars, connectVars, raceVars,
                   configVars, tuiVars, alerts, alert_sequence, chat_messages, message_sequence>>

\* chat_with_alert, "Save user message": an error of the INSERT is a 500, else
\* Chat::run is called
ChatSaveUser ==
    /\ \E c \in chats :
         /\ c.at = "found"
         /\ \E res \in {insert_chat_message([alerts |-> alerts, messages |-> chat_messages,
                                               seq |-> message_sequence], c.alert_id, "user")} :
                /\ chat_messages' = res.messages
                /\ message_sequence' = res.seq
                /\ chats' = IF res.ok
                            THEN (chats \ {c}) \cup
                                 {[c EXCEPT !.at = "running", !.user_message = res.id]}
                            ELSE chats \ {c}
                /\ alertOp' = AlertOp("user", c.alert_id, res.ok)
    /\ events' = <<>>
    /\ UNCHANGED <<registry, agentVars, healthVars, registryVars, connectVars, raceVars,
                   configVars, tuiVars, alerts, alert_sequence>>

\* Mutant of ChatReturn: an error of the agent takes the user's message back
ChatReturn_RollbackUser ==
    /\ \E c \in chats, agentOk \in BOOLEAN :
         /\ c.at = "running"
         /\ chats' = chats \ {c}
         /\ IF ~agentOk
            THEN /\ alertOp' = AlertOp("assistant", c.alert_id, FALSE)
                 /\ events' = <<>>
                 /\ chat_messages' = {m \in chat_messages : m.id # c.user_message}
                 /\ UNCHANGED message_sequence
            ELSE \E res \in {insert_chat_message([alerts |-> alerts, messages |-> chat_messages,
                                                  seq |-> message_sequence], c.alert_id,
                                                 "assistant")} :
                   /\ chat_messages' = res.messages
                   /\ message_sequence' = res.seq
                   /\ events' = IF res.ok THEN <<ChatMessage(c.alert_id, res.id)>> ELSE <<>>
                   /\ alertOp' = AlertOp("assistant", c.alert_id, res.ok)
    /\ UNCHANGED <<registry, agentVars, healthVars, registryVars, connectVars, raceVars,
                   configVars, tuiVars, alerts, alert_sequence>>

\* chat_with_alert, from the return of Chat::run: an error of the agent is a
\* 500, else the assistant's message is saved and ChatMessage broadcast
ChatReturn ==
    /\ \E c \in chats, agentOk \in BOOLEAN :
         /\ c.at = "running"
         /\ chats' = chats \ {c}
         /\ IF ~agentOk
            THEN /\ alertOp' = AlertOp("assistant", c.alert_id, FALSE)
                 /\ events' = <<>>
                 /\ UNCHANGED <<chat_messages, message_sequence>>
            ELSE \E res \in {insert_chat_message([alerts |-> alerts, messages |-> chat_messages,
                                                  seq |-> message_sequence], c.alert_id,
                                                 "assistant")} :
                   /\ chat_messages' = res.messages
                   /\ message_sequence' = res.seq
                   /\ events' = IF res.ok THEN <<ChatMessage(c.alert_id, res.id)>> ELSE <<>>
                   /\ alertOp' = AlertOp("assistant", c.alert_id, res.ok)
    /\ UNCHANGED <<registry, agentVars, healthVars, registryVars, connectVars, raceVars,
                   configVars, tuiVars, alerts, alert_sequence>>

\* Mutant of DeleteAlert: the event is broadcast before the result is looked at
DeleteAlert_AlwaysBroadcast ==
    /\ \E id \in AlertIds :
       \E res \in {delete_alert([alerts |-> alerts, messages |-> chat_messages], id)} :
         /\ alerts' = res.alerts
         /\ chat_messages' = res.messages
         /\ events' = <<AlertDeleted(id)>>
         /\ alertOp' = AlertOp("delete", id, res.deleted)
    /\ UNCHANGED <<registry, agentVars, healthVars, registryVars, connectVars, raceVars,
                   configVars, tuiVars, alert_sequence, message_sequence, chats>>

\* DELETE /api/alerts/{id}: 404 when delete_alert returns false, else
\* AlertDeleted is broadcast
DeleteAlert ==
    /\ \E id \in AlertIds :
       \E res \in {delete_alert([alerts |-> alerts, messages |-> chat_messages], id)} :
         /\ alerts' = res.alerts
         /\ chat_messages' = res.messages
         /\ events' = IF res.deleted THEN <<AlertDeleted(id)>> ELSE <<>>
         /\ alertOp' = AlertOp("delete", id, res.deleted)
    /\ UNCHANGED <<registry, agentVars, healthVars, registryVars, connectVars, raceVars,
                   configVars, tuiVars, alert_sequence, message_sequence, chats>>

AlertInit ==
    /\ registry = {}
    /\ agent = "AlertAnalyzer"
    /\ AgentIdle
    /\ HealthIdle
    /\ RegistryIdle
    /\ ConnectIdle
    /\ AlertIdle
    /\ RaceIdle
    /\ ConfigIdle
    /\ TuiIdle

AlertNext ==
    \/ ProcessAlert
    \/ ChatLookup
    \/ ChatSaveUser
    \/ ChatReturn
    \/ DeleteAlert

AlertSpec == AlertInit /\ [][AlertNext]_vars

(***************************************************************************)
(* Claims about the agent invocation, checked under Spec.                  *)
(***************************************************************************)
RECURSIVE IsSubseq(_, _)
IsSubseq(a, b) ==
    IF a = <<>> THEN TRUE
    ELSE IF b = <<>> THEN FALSE
    ELSE IF Head(a) = Head(b) THEN IsSubseq(Tail(a), Tail(b))
    ELSE IsSubseq(a, Tail(b))

NamesOf(seq) == [i \in 1..Len(seq) |-> seq[i].name]

FailedAttempts == {i \in 1..Len(attempts) : ~attempts[i].ok}

AggregationReturned == readResult = "Ok" /\ pc \notin {"idle", "connecting"}

\* C1: while the agent may invoke tools (the prompt is running), the _service
\* of every connection whose tools and peer were given to the agent is alive,
\* and no tool invocation is made through a peer whose _service was dropped.
\* The code drops the _service of every connection but the first at the end
\* of its iteration of the builder loop, so TLC refutes this.
C1_OwnerAliveWhileUsed ==
    /\ pc = "prompting" => \A i \in 1..Len(handed) : handed[i].peer \in alive
    /\ lastCall.owner_alive

\* C2: an aggregation over a snapshot of N enabled servers of which k fail
\* returns Ok with exactly N-k connections and failed_count = k; N = 0
\* gives Ok with the empty list.
C2_AggregationCounts ==
    AggregationReturned =>
        /\ caeResult = "Ok"
        /\ Len(attempts) = Len(servers)
        /\ Len(connections) = Len(servers) - Cardinality(FailedAttempts)
        /\ failed_count = Cardinality(FailedAttempts)
        /\ (Len(servers) = 0 => connections = <<>>)

C2_Witness ==
    /\ caeResult = "Ok"
    /\ Len(servers) = 3
    /\ failed_count = 2
    /\ Len(connections) = 1

\* C3: in one connect_all_enabled call the i-th call of connect is for the
\* i-th server of the snapshot, whatever the earlier outcomes were, and when
\* the call returns every server of the snapshot has had exactly one attempt.
C3_OneAttemptEach ==
    /\ Len(attempts) <= Len(servers)
    /\ \A i \in 1..Len(attempts) : attempts[i].name = servers[i].name
    /\ AggregationReturned =>
          \A j \in 1..Len(servers) :
              Cardinality({i \in 1..Len(attempts) : attempts[i].name = servers[j].name}) = 1

C3_Witness ==
    /\ caeResult = "Ok"
    /\ Len(attempts) = 3
    /\ ~attempts[1].ok
    /\ attempts[2].ok
    /\ ~attempts[3].ok

\* C4: the returned connections are a subsequence of the listing of the
\* enabled rows of the registry in ascending order of name.
C4_RegistryOrder ==
    AggregationReturned =>
        /\ IsSubseq(NamesOf(connections), NamesOf(servers))
        /\ {servers[i].name : i \in 1..Len(servers)} = {r.name : r \in {x \in registry : x.enabled}}
        /\ \A i, j \in 1..Len(servers) : i < j => Rank(servers[i].name) < Rank(servers[j].name)
        /\ \A i, j \in 1..Len(connections) :
              i < j => Rank(connections[i].name) < Rank(connections[j].name)

C4_Witness ==
    /\ caeResult = "Ok"
    /\ Len(servers) = 3
    /\ NamesOf(connections) = <<servers[1].name, servers[3].name>>

\* C5: an invocation whose aggregation gave no connection still builds and
\* runs the agent, without tools; run returns an error only when the registry
\* could not be read or the prompt itself failed.
C5_ZeroToolsStillRuns ==
    /\ (caeResult = "Ok" /\ connections = <<>> /\ pc \notin {"idle", "connecting"}) =>
          /\ pc \in {"connected", "prompting", "done"}
          /\ handed = <<>>
          /\ (pc = "done" => promptResult # "none" /\ runResult = promptResult)
    /\ runResult = "Err" => (readResult = "Err" \/ promptResult = "Err")

C5_Witness ==
    /\ pc = "done"
    /\ runResult = "Ok"
    /\ connections = <<>>
    /\ failed_count >= 2

\* C6: connect_all_enabled returns an error exactly when reading the enabled
\* servers failed; the failure of a connection attempt is never returned.
C6_ErrorOnlyFromRegistry ==
    /\ caeResult = "Err" <=> readResult = "Err"
    /\ (AggregationReturned /\ failed_count > 0) => caeResult = "Ok"

C6_Witness ==
    /\ caeResult = "Ok"
    /\ Len(servers) >= 2
    /\ failed_count = Len(servers)

(***************************************************************************)
(* Claims about the probes, checked under HealthSpec and FairTestSpec.     *)
(***************************************************************************)
IsErrorStatus(v) == v = "error: connect"

\* C8: a probe whose deadline elapsed before its establishment completed is
\* reported as "timeout", and as unhealthy overall; the status reported for a
\* probe is exactly one of healthy, error and timeout, and it is the one of
\* what happened: healthy only for an establishment that succeeded in time,
\* error only for one that failed in time.
C8_TimeoutOutcome ==
    \A i \in 1..Len(probeLog) :
        LET e == probeLog[i]
            v == health_status.services[e.target]
        IN  /\ e.target \in DOMAIN health_status.services
            /\ e.late => (v = "timeout" /\ health_status.status = "unhealthy")
            /\ ~e.late => v # "timeout"
            /\ Cardinality({k \in {"healthy", "error", "timeout"} :
                              \/ k = "healthy" /\ v = "healthy"
                              \/ k = "error" /\ IsErrorStatus(v)
                              \/ k = "timeout" /\ v = "timeout"}) = 1

C8_Witness ==
    /\ Len(probeLog) = 2
    /\ probeLog[1].late
    /\ ~probeLog[2].late
    /\ health_status.services["ripestat_mcp"] = "timeout"
    /\ health_status.services["whois_mcp"] = "healthy"

\* C9: every probe resolves, also against a server that never completes the
\* handshake or the tool enumeration: the on-demand test of a server
\* eventually answers.  test_connection awaits connect under no deadline,
\* so TLC refutes this with a server that never answers.
C9_EveryProbeResolves == <>(tpc = "done")

\* C10: a sweep probes RIPEstat and then WHOIS whatever the first probe
\* gave, reports each under its own key with the status of its own outcome,
\* and returns Ok.
StatusOf(outcome) ==
    CASE outcome = "Ok" -> "healthy"
      [] outcome = "Err" -> "error: connect"
      [] outcome = "Elapsed" -> "timeout"

C10_SweepIndependent ==
    /\ sweepResult \in {"none", "Ok"}
    /\ hpc \in {"llm", "done"} =>
          /\ Len(probeLog) = 2
          /\ probeLog[1].target = "ripestat_mcp"
          /\ probeLog[2].target = "whois_mcp"
          /\ \A i \in 1..2 :
                health_status.services[probeLog[i].target] = StatusOf(probeLog[i].outcome)
    /\ hpc = "done" =>
          /\ sweepResult = "Ok"
          /\ DOMAIN health_status.services = {"ripestat_mcp", "whois_mcp", "llm_client"}

C10_Witness ==
    /\ hpc = "done"
    /\ probeLog[1].outcome = "Elapsed"
    /\ probeLog[2].outcome = "Err"
    /\ health_status.services["whois_mcp"] = "error: connect"

\* C11: the overall status of a sweep is "healthy" exactly when every MCP
\* sub-probe resolved so far succeeded: one error or timeout makes it
\* "unhealthy", and it stays so whatever a later sub-probe gives.
C11_HealthyIffAllOk ==
    hpc # "idle" =>
        (health_status.status = "healthy"
            <=> \A i \in 1..Len(probeLog) : probeLog[i].outcome = "Ok")

C11_Witness ==
    /\ hpc = "done"
    /\ probeLog[1].outcome = "Err"
    /\ probeLog[2].outcome = "Ok"
    /\ health_status.services["whois_mcp"] = "healthy"
    /\ health_status.status = "unhealthy"

\* the key under which a sweep reports the server of a name
KeyOf(name) ==
    CASE name = "ripestat" -> "ripestat_mcp"
      [] name = "whois" -> "whois_mcp"
      [] OTHER -> name

\* C12: the servers a finished sweep reports a status for are exactly the
\* servers enabled in the registry at the time of the sweep.  run probes the
\* two built-in servers whatever the registry holds, so TLC refutes this.
C12_SweepCoversEnabled ==
    hpc = "done" =>
        {n \in Names : KeyOf(n) \in DOMAIN health_status.services}
            = {r.name : r \in {x \in registry : x.enabled}}

(***************************************************************************)
(* Claims about the registry API, checked under RegistrySpec.              *)
(***************************************************************************)
\* C13: enable_native_mcp_servers(true) called right after
\* enable_native_mcp_servers(true) inserts nothing and changes no row: the
\* table after the second call is the table after the first.
C13_EnableIdempotent ==
    (lastOp.op = "enable" /\ prevOp = "enable") => registry = before

C13_Witness ==
    /\ lastOp.op = "enable"
    /\ prevOp = "enable"
    /\ lastOp.ok
    /\ Cardinality(NativeRows(registry)) = 2
    /\ \E r \in registry : ~r.is_native

\* C14: enable_native_mcp_servers(false) leaves no row that an enable call
\* inserted and no row with the native flag, and leaves every row that
\* create_mcp_server inserted as it was, whatever calls came before.
C14_DisableRemovesNatives ==
    lastOp.op = "disable" =>
        /\ \A r \in registry : ~r.is_native /\ ~created[r.id].native
        /\ \A r \in before : ~created[r.id].native => r \in registry
        /\ registry \subseteq before

C14_Witness ==
    /\ lastOp.op = "disable"
    /\ \E r \in before : r.is_native /\ r.description = "edited"
    /\ \E r \in before : ~r.is_native
    /\ registry = {r \in before : ~created[r.id].native}
    /\ registry # {}

\* C15: after enable_native_mcp_servers(true), from any table the API can
\* leave, each built-in name is the name of a row with the native flag.  The
\* INSERT of a built-in name fails on UNIQUE(name) when a row without the
\* flag has that name, so TLC refutes this.
C15_EnableMakesPresent ==
    lastOp.op = "enable" =>
        \A i \in 1..Len(get_native_mcp_servers) :
            \E r \in registry : r.name = get_native_mcp_servers[i].name /\ r.is_native

\* C16 as stated: enable_native_mcp_servers(true) leaves every row with the
\* native flag as it was, and a built-in row that was edited has the values of
\* its descriptor again only after a disable followed by an enable.
\* delete_mcp_server of the edited row followed by an enable inserts the
\* descriptor again, without a disable, so TLC refutes this.
C16_ResetOnlyByDisableEnable ==
    /\ lastOp.op = "enable" => \A r \in NativeRows(before) : r \in registry
    /\ \A r \in NativeRows(registry) : IsDescriptor(r) => created[r.id].name \notin edited

\* C16 as amended: enable_native_mcp_servers(true) leaves every row with the
\* native flag as it was, edited or not, so an enable call never gives an
\* edited row the values of its descriptor; after a disable followed by an
\* enable every row with the native flag has the values of its descriptor.
C16_EnableKeepsExisting ==
    /\ lastOp.op = "enable" => \A r \in NativeRows(before) : r \in registry
    /\ (lastOp.op = "enable" /\ prevOp = "disable") =>
          \A r \in NativeRows(registry) : IsDescriptor(r)

C16_Witness ==
    /\ lastOp.op = "enable"
    /\ lastOp.ok
    /\ "ripestat" \in edited
    /\ \E r \in registry :
          /\ r.is_native
          /\ r.name = "ripestat"
          /\ r.url = "https://other/mcp"
          /\ ~IsDescriptor(r)

\* C17: every stored http row has a url that is present and not empty, every
\* stored stdio row a command that is present and not empty, and every stored
\* row can be read back.  update_mcp_server writes an empty url or command
\* without validating it, so TLC refutes this.
C17_StoredRowsReadable ==
    \A r \in registry :
        /\ r.transport_type = "http" => r.url \notin {NULL, ""}
        /\ r.transport_type = "stdio" => r.command \notin {NULL, ""}
        /\ from_row(r).ok

\* C18: a row that can be read back has the kind it was inserted with, and an
\* update that wrote leaves the row's own kind-specific fields as its own
\* fields of the request say (the earlier value when the request has none),
\* whatever fields of the other kind the request supplies.
C18_KindKept ==
    /\ \A r \in registry :
          /\ r.transport_type = (IF created[r.id].kind = "Http" THEN "http" ELSE "stdio")
          /\ from_row(r).ok => from_row(r).server.kind = created[r.id].kind
    /\ (lastOp.op = "update" /\ lastOp.wrote) =>
          LET old == CHOOSE r \in before : r.id = lastOp.id
              new == CHOOSE r \in registry : r.id = lastOp.id
              existing == from_row(old).server
              now == from_row(new)
              u == lastOp.update
          IN  /\ existing.kind = "Http" =>
                    /\ new.url = OptOr(u.url, existing.url)
                    /\ now.ok => (now.server.kind = "Http" /\ now.server.url = new.url)
              /\ existing.kind = "Stdio" =>
                    /\ new.command = OptOr(u.command, existing.command)
                    /\ now.ok =>
                          /\ now.server.kind = "Stdio"
                          /\ now.server.command = new.command
                          /\ now.server.args = OptOr(u.args, existing.args)
                          /\ now.server.env = OptOr(u.env, existing.env)

C18_Witness ==
    /\ lastOp.op = "update"
    /\ lastOp.ok
    /\ lastOp.update.command = {"sh"}
    /\ \E r \in registry :
          /\ r.id = lastOp.id
          /\ r.transport_type = "http"
          /\ r.command = "sh"
          /\ r.args # {}
          /\ from_row(r).ok
          /\ from_row(r).server.kind = "Http"
          /\ from_row(r).server.url = (CHOOSE o \in before : o.id = r.id).url

\* C19: create_mcp_server answers a request with an empty name, an Http
\* request with an empty url and a Stdio request with an empty command with a
\* validation error, and the table is as before the call.
C19_CreateRejectsInvalid ==
    LET c == lastOp.create
    IN  (/\ lastOp.op = "create"
         /\ \/ c.name = ""
            \/ c.kind = "Http" /\ c.url = ""
            \/ c.kind = "Stdio" /\ c.command = "") =>
            /\ ~lastOp.ok
            /\ lastOp.err = "Validation error"
            /\ registry = before

C19_Witness ==
    /\ lastOp.op = "create"
    /\ lastOp.create.kind = "Http"
    /\ lastOp.create.name = "alpha"
    /\ lastOp.create.url = ""
    /\ lastOp.err = "Validation error"
    /\ registry = before
    /\ registry # {}

\* C20: a request create_mcp_server accepts and inserts is answered Ok, and
\* get_mcp_server_by_id of the new id gives the kind of the request and its
\* kind-specific fields: the url for Http; the command, args and env for
\* Stdio, empty or not.
C20_CreateThenRead ==
    (lastOp.op = "create" /\ lastOp.err \notin {"Validation error", "UNIQUE constraint"}) =>
        LET c == lastOp.create
            got == get_mcp_server_by_id(registry, lastOp.id, TRUE)
            server == CHOOSE x \in got.server : TRUE
        IN  /\ lastOp.ok
            /\ got.ok
            /\ got.server # {}
            /\ server.kind = c.kind
            /\ c.kind = "Http" => server.url = c.url
            /\ c.kind = "Stdio" =>
                  /\ server.command = c.command
                  /\ server.args = c.args
                  /\ server.env = c.env

C20_Witness ==
    /\ lastOp.op = "create"
    /\ lastOp.ok
    /\ lastOp.create.kind = "Stdio"
    /\ lastOp.create.args = <<>>
    /\ lastOp.create.env = TwoKeys
    /\ \E r \in registry : r.id = lastOp.id /\ r.args = {} /\ r.env # {}

(***************************************************************************)
(* Claims about names, reads, updates and deletes of the registry.         *)
(***************************************************************************)
\* a row other than row id holds the name
NameTaken(rows, name, id) == \E r \in rows : r.id # id /\ r.name = name

\* C21: no two rows of the registry have the same name; a create, and an
\* update of an existing row, that names the name of another row fails and
\* leaves the table as it was, with the UNIQUE constraint error (the routes'
\* 409) whenever the request passes validation, or the row can be read.
C21_NamesUnique ==
    /\ \A r1, r2 \in registry : r1.name = r2.name => r1 = r2
    /\ (lastOp.op = "create" /\ NameTaken(before, lastOp.create.name, 0)) =>
          /\ ~lastOp.ok
          /\ registry = before
          /\ validate(lastOp.create).ok => lastOp.err = "UNIQUE constraint"
    /\ (/\ lastOp.op = "update"
        /\ \E r \in before : r.id = lastOp.id
        /\ \E n \in lastOp.update.name : NameTaken(before, n, lastOp.id)) =>
          /\ ~lastOp.ok
          /\ registry = before
          /\ (\E r \in before : r.id = lastOp.id /\ from_row(r).ok) =>
                lastOp.err = "UNIQUE constraint"

C21_Witness ==
    /\ lastOp.op = "update"
    /\ lastOp.err = "UNIQUE constraint"
    /\ lastOp.update.name = {"alpha"}
    /\ registry = before
    /\ \E r \in registry : r.id # lastOp.id /\ r.name = "alpha"
    /\ \E r \in registry : r.id = lastOp.id /\ r.name # "alpha"

\* C22: what get_enabled_mcp_servers returns is the parsed form of exactly the
\* rows whose enabled flag is set, in ascending order of name, and every
\* server connect_all_enabled attempts is one of these.
C22_OnlyEnabledAttempted ==
    readResult = "Ok" =>
        /\ {servers[i].id : i \in 1..Len(servers)} = {r.id : r \in {x \in registry : x.enabled}}
        /\ \A i \in 1..Len(servers) :
              \E r \in registry : r.enabled /\ from_row(r).ok /\ from_row(r).server = servers[i]
        /\ \A i, j \in 1..Len(servers) :
              i < j => Rank(servers[i].name) < Rank(servers[j].name)
        /\ \A i \in 1..Len(used) :
              \E r \in registry : r.id = used[i].id /\ r.name = used[i].name /\ r.enabled

C22_Witness ==
    /\ caeResult = "Ok"
    /\ Len(used) = 2
    /\ \E r \in registry : ~r.enabled /\ ~from_row(r).ok
    /\ \A i \in 1..Len(used) : \E r \in registry : r.name = used[i].name /\ r.enabled

ArgsOf(r) == IF r.args = {} THEN <<>> ELSE from_str_vec(CHOOSE t \in r.args : TRUE).value

EnvOf(r) == IF r.env = {} THEN NoEnv ELSE from_str_map(CHOOSE t \in r.env : TRUE).value

C26_DeleteReturn ==
    lastOp.op = "delete" =>
        /\ lastOp.wrote <=> \E r \in before : r.id = lastOp.id
        /\ get_mcp_server_by_id(registry, lastOp.id, TRUE).ok
        /\ get_mcp_server_by_id(registry, lastOp.id, TRUE).server = {}
        /\ ~delete_mcp_server(registry, lastOp.id).deleted
        /\ registry = {r \in before : r.id # lastOp.id}

C26_Witness ==
    /\ lastOp.op = "delete"
    /\ lastOp.wrote
    /\ registry # {}
    /\ registry # before
    /\ calls >= 2

\* C30: after an enable_native_mcp_servers(true) that returned an error the
\* table is as it was before the call.
C30_FailedEnableInsertsNothing ==
    (lastOp.op = "enable" /\ ~lastOp.ok) => registry = before

(***************************************************************************)
(* Claim about one call of connect, checked under ConnectSpec.             *)
(***************************************************************************)
\* C27: connect returns a connection exactly when no step failed; the
\* handshake (serve) is then made before the tool enumeration (list_tools),
\* the connection has the name of the server and the tools the enumeration
\* answered; when a step fails the error of that step is returned, without
\* a connection, and the enumeration is not requested after a failed spawn
\* or handshake.
C27_ConnectReturn ==
    connectCall.returned =>
        LET resp == connectCall.resp
            steps == connectCall.steps
            Pos(x) == {i \in 1..Len(steps) : steps[i] = x}
        IN  /\ connectCall.ok <=> resp.fail = "none"
            /\ connectCall.ok <=> connectCall.conn # {}
            /\ connectCall.ok =>
                  /\ Pos("serve") # {}
                  /\ Pos("list_tools") # {}
                  /\ \A i \in Pos("serve"), j \in Pos("list_tools") : i < j
                  /\ \A c \in connectCall.conn, server \in connectCall.server :
                        c.tools = resp.tools /\ c.name = server.name
            /\ ~connectCall.ok => connectCall.err = resp.fail
            /\ Pos("list_tools") # {} =>
                  (resp.fail \notin {"spawn", "handshake"} /\ Pos("serve") # {})

C27_Witness ==
    /\ connectCall.returned
    /\ connectCall.ok
    /\ \E c \in connectCall.conn : Len(c.tools) = 2
    /\ \E server \in connectCall.server : server.kind = "Http"

(***************************************************************************)
(* Claim about the aggregation under concurrent calls of the registry API, *)
(* checked under ConcurrentSpec.                                           *)
(***************************************************************************)
\* C23: the servers connect_all_enabled attempts, and the values connect is
\* given for them, are those of the one read of the enabled rows made before
\* the first attempt, whatever the registry API committed since: the list
\* iterated is the list read, every call of connect got the server of its
\* position in that list, and when the aggregation returns every server of
\* the list was attempted.
C23_ReadOnce ==
    readResult = "Ok" =>
        LET read == get_enabled_mcp_servers(readFrom, TRUE).servers
        IN  /\ servers = read
            /\ Len(used) <= Len(read)
            /\ \A i \in 1..Len(used) : used[i] = read[i]
            /\ caeResult = "Ok" => Len(used) = Len(read)

C23_Witness ==
    /\ pc = "connecting"
    /\ Len(used) = 1
    /\ idx = 2
    /\ lastOp.op = "delete"
    /\ registry # readFrom
    /\ ~\E r \in registry : r.id = servers[2].id

(***************************************************************************)
(* Claim about alerts and chat messages, checked under AlertSpec.          *)
(***************************************************************************)
\* C28: every row of chat_messages has the id of a row of alerts; a delete of
\* an alert removes the alert and every chat message of it, and leaves the
\* other alerts and the other chat messages as they were.
C28_MessagesHaveAlert ==
    /\ \A m \in chat_messages : \E a \in alerts : a.id = m.alert_id
    /\ alertOp.op = "delete" =>
          /\ alerts = {a \in alertOp.alerts : a.id # alertOp.id}
          /\ chat_messages = {m \in alertOp.chat_messages : m.alert_id # alertOp.id}
          /\ alertOp.ok <=> \E a \in alertOp.alerts : a.id = alertOp.id

C28_Witness ==
    /\ alertOp.op = "delete"
    /\ alertOp.ok
    /\ \E m \in alertOp.chat_messages : m.alert_id = alertOp.id
    /\ chat_messages # {}
    /\ \E c \in chats : c.alert_id = alertOp.id /\ c.at = "running"

(***************************************************************************)
(* Claims about the native flag, checked under RegistrySpec.               *)
(***************************************************************************)
BuiltinNames == {get_native_mcp_servers[i].name : i \in 1..Len(get_native_mcp_servers)}

\* C31: every row with the native flag has the name of a built-in descriptor,
\* no two rows with the native flag have the same name, and the rows with
\* the native flag are no more than the built-in descriptors.
C31_NativeRowsAreBuiltins ==
    /\ \A r \in NativeRows(registry) : r.name \in BuiltinNames
    /\ \A r1, r2 \in NativeRows(registry) : r1.name = r2.name => r1 = r2
    /\ Cardinality(NativeRows(registry)) <= Len(get_native_mcp_servers)

\* C32: the native flag of a row is the one of its INSERT: a row inserted by
\* create_mcp_server does not have it, a row inserted by
\* enable_native_mcp_servers(true) has it, an update_mcp_server leaves it as it
\* was, and a disable keeps every row create_mcp_server inserted.
C32_NativeFlagFixed ==
    /\ \A r \in registry : r.is_native = created[r.id].native
    /\ \A r \in registry \ before :
          /\ lastOp.op = "create" => ~r.is_native
          /\ lastOp.op = "enable" => r.is_native
          /\ lastOp.op = "update" =>
                \E old \in before : old.id = r.id /\ old.is_native = r.is_native
    /\ lastOp.op = "disable" =>
          {r \in before : ~r.is_native} \subseteq registry

C32_Witness ==
    /\ lastOp.op = "disable"
    /\ registry # before
    /\ \E r \in registry : r.name \in BuiltinNames /\ ~r.is_native
    /\ prevOp = "enable"

(***************************************************************************)
(* Two PUT /api/mcps/{id} handlers in flight: update_mcp_server awaits     *)
(* three statements on the pool, without a transaction.                    *)
(***************************************************************************)
Handlers == {1, 2}

\* the tables the handlers start on: the built-in servers enabled
UpdateRaceInit ==
    /\ agent = "AlertAnalyzer"
    /\ AgentIdle
    /\ HealthIdle
    /\ ConnectIdle
    /\ AlertIdle
    /\ ConfigIdle
    /\ TuiIdle
    /\ lastOp = NoOp
    /\ before = {}
    /\ prevOp = "none"
    /\ calls = 0
    /\ created = NoneCreated
    /\ edited = {}
    /\ registry = EnabledOnce.rows
    /\ sqlite_sequence = EnabledOnce.seq
    /\ enables = <<>>
    /\ \E id1, id2 \in {r.id : r \in EnabledOnce.rows} \cup {EnabledOnce.seq + 1} :
       \E update1, update2 \in UpdateRequests :
         updates = <<[pc |-> "read", id |-> id1, update |-> update1, existing |-> {},
                      ok |-> TRUE, wrote |-> FALSE, result |-> {}],
                     [pc |-> "read", id |-> id2, update |-> update2, existing |-> {},
                      ok |-> TRUE, wrote |-> FALSE, result |-> {}]>>

\* let existing = get_mcp_server_by_id(pool, id).await?; None => return Ok(None)
UpdateRead(h) ==
    /\ updates[h].pc = "read"
    /\ \E first \in {get_mcp_server_by_id(registry, updates[h].id, TRUE)} :
         updates' = [updates EXCEPT ![h] =
                        IF ~first.ok THEN [@ EXCEPT !.pc = "done", !.ok = FALSE]
                        ELSE IF first.server = {} THEN [@ EXCEPT !.pc = "done"]
                        ELSE [@ EXCEPT !.pc = "write", !.existing = first.server]]
    /\ UNCHANGED <<registry, agentVars, healthVars, registryVars, connectVars, alertVars,
                   configVars, tuiVars, enables>>

\* UPDATE mcp_servers SET name, description, url, command, args, env, enabled
\* WHERE id = ?: the values are the request's, else those of `existing`
UpdateWrite(h) ==
    /\ updates[h].pc = "write"
    /\ \E order \in KeyOrders :
         LET found == {r \in registry : r.id = updates[h].id}
             old == CHOOSE r \in found : TRUE
             existing == CHOOSE x \in updates[h].existing : TRUE
             upd == UPDATE(registry, old,
                           UpdatedValues(old, existing, updates[h].update, order))
         IN  IF found = {}
             THEN /\ updates' = [updates EXCEPT ![h] = [@ EXCEPT !.pc = "readback"]]
                  /\ UNCHANGED registry
             ELSE IF ~upd.ok
             THEN /\ updates' = [updates EXCEPT ![h] = [@ EXCEPT !.pc = "done", !.ok = FALSE]]
                  /\ UNCHANGED registry
             ELSE /\ updates' = [updates EXCEPT ![h] = [@ EXCEPT !.pc = "readback",
                                                                  !.wrote = TRUE]]
                  /\ registry' = upd.rows
    /\ UNCHANGED <<agentVars, healthVars, registryVars, connectVars, alertVars, configVars,
                   tuiVars, enables>>

\* get_mcp_server_by_id(pool, id).await, the value update_mcp_server returns
UpdateReadBack(h) ==
    /\ updates[h].pc = "readback"
    /\ \E got \in {get_mcp_server_by_id(registry, updates[h].id, TRUE)} :
         updates' = [updates EXCEPT ![h] = [@ EXCEPT !.pc = "done", !.ok = got.ok,
                                                      !.result = got.server]]
    /\ UNCHANGED <<registry, agentVars, healthVars, registryVars, connectVars, alertVars,
                   configVars, tuiVars, enables>>

UpdateRaceNext ==
    \E h \in Handlers :
        \/ UpdateRead(h)
        \/ UpdateWrite(h)
        \/ UpdateReadBack(h)

UpdateRaceSpec == UpdateRaceInit /\ [][UpdateRaceNext]_vars

\* the fields a request supplies
Supplied(update) ==
    {f \in {"name", "description", "url", "command", "args", "env", "enabled"} :
        update[f] # {}}

\* the row has the value of every field the request supplies
Carries(r, update) ==
    /\ update.name # {} => r.name = OptOr(update.name, NULL)
    /\ update.description # {} => r.description = OptOr(update.description, NULL)
    /\ update.url # {} => r.url = OptOr(update.url, NULL)
    /\ update.command # {} => r.command = OptOr(update.command, NULL)
    /\ update.args # {} => r.args = args_json(OptOr(update.args, <<>>))
    /\ update.env # {} => \E order \in KeyOrders : r.env = env_json(OptOr(update.env, NoEnv), order)
    /\ update.enabled # {} => r.enabled = OptOr(update.enabled, TRUE)

\* the table after the two requests were served one after the other
OneByOne(rows, id, first, second, order) ==
    update_mcp_server(update_mcp_server(rows, id, first, order).rows, id, second, order).rows

\* served one after the other, in either order, the two requests leave a row
\* that carries both
CarriedOneByOne(id, update1, update2) ==
    \A order \in KeyOrders :
        /\ \A r \in OneByOne(EnabledOnce.rows, id, update1, update2, order) :
              r.id = id => Carries(r, update1) /\ Carries(r, update2)
        /\ \A r \in OneByOne(EnabledOnce.rows, id, update2, update1, order) :
              r.id = id => Carries(r, update1) /\ Carries(r, update2)

\* C33: two update_mcp_server calls on the same row that supply disjoint
\* fields (and take effect both when they run one after the other) and have
\* both written and returned leave a row that carries the values of both
C33_NoLostUpdate ==
    (/\ updates # <<>>
     /\ \A h \in Handlers : updates[h].pc = "done" /\ updates[h].wrote
     /\ updates[1].id = updates[2].id
     /\ Supplied(updates[1].update) \cap Supplied(updates[2].update) = {}
     /\ CarriedOneByOne(updates[1].id, updates[1].update, updates[2].update))
        => \A r \in registry :
              r.id = updates[1].id => Carries(r, updates[1].update) /\ Carries(r, updates[2].update)

(***************************************************************************)
(* Two POST /api/mcps/enable-native {enabled: true} handlers in flight:    *)
(* the loop of enable_native_mcp_servers awaits a SELECT and an INSERT per *)
(* descriptor, without a transaction.                                      *)
(***************************************************************************)
\* the tables without a native row the handlers start on: the empty one, and
\* those after one create_mcp_server
UserTables ==
    {create_mcp_server([rows |-> {}, seq |-> 0], server, <<"K", "L">>) : server \in CreateRequests}

EnableRaceInit ==
    /\ agent = "AlertAnalyzer"
    /\ AgentIdle
    /\ HealthIdle
    /\ ConnectIdle
    /\ AlertIdle
    /\ ConfigIdle
    /\ TuiIdle
    /\ lastOp = NoOp
    /\ before = {}
    /\ prevOp = "none"
    /\ calls = 0
    /\ created = NoneCreated
    /\ edited = {}
    /\ \E t \in UserTables :
         /\ registry = t.rows
         /\ sqlite_sequence = t.seq
    /\ updates = <<>>
    /\ enables = <<[pc |-> "check", i |-> 1, ok |-> TRUE], [pc |-> "check", i |-> 1, ok |-> TRUE]>>

\* the handler's position after the descriptor i: the next one, or the return
AfterDescriptor(e) ==
    IF e.i < Len(get_native_mcp_servers)
    THEN [e EXCEPT !.pc = "check", !.i = e.i + 1]
    ELSE [e EXCEPT !.pc = "done"]

\* SELECT id FROM mcp_servers WHERE name = ? AND is_native = 1; `continue`
\* when there is one
EnableCheck(h) ==
    /\ enables[h].pc = "check"
    /\ enables' = [enables EXCEPT ![h] =
                      IF \E r \in registry :
                            r.name = get_native_mcp_servers[enables[h].i].name /\ r.is_native
                      THEN AfterDescriptor(@)
                      ELSE [@ EXCEPT !.pc = "insert"]]
    /\ UNCHANGED <<registry, agentVars, healthVars, registryVars, connectVars, alertVars,
                   configVars, tuiVars, updates>>

\* INSERT INTO mcp_servers ... is_native = 1; `?` returns its error
EnableInsert(h) ==
    /\ enables[h].pc = "insert"
    /\ \E ins \in {INSERT([rows |-> registry, seq |-> sqlite_sequence],
                          Extract(get_native_mcp_servers[enables[h].i], TRUE, <<"K", "L">>))} :
         /\ registry' = ins.rows
         /\ sqlite_sequence' = ins.seq
         /\ enables' = [enables EXCEPT ![h] =
                           IF ins.ok THEN AfterDescriptor(@)
                           ELSE [@ EXCEPT !.pc = "done", !.ok = FALSE]]
    /\ UNCHANGED <<agentVars, healthVars, connectVars, alertVars, configVars, tuiVars, updates,
                   lastOp, before, prevOp, created, edited, calls>>

EnableRaceNext ==
    \E h \in Handlers :
        \/ EnableCheck(h)
        \/ EnableInsert(h)

EnableRaceSpec == EnableRaceInit /\ [][EnableRaceNext]_vars

\* C34: two concurrent enable_native_mcp_servers(true) calls on a table without
\* native rows never leave two rows for one built-in, and when both have
\* returned the table holds exactly one native row per built-in descriptor
C34_OneNativeRowEach ==
    enables # <<>> =>
        /\ \A name \in BuiltinNames : Cardinality({r \in registry : r.name = name}) <= 1
        /\ (\A h \in Handlers : enables[h].pc = "done") =>
              \A name \in BuiltinNames :
                  Cardinality({r \in NativeRows(registry) : r.name = name}) = 1

\* the events of that type the latest call broadcast
Broadcast(type) == {i \in 1..Len(events) : events[i].type = type}

\* C35: process_alert stores a row only when the analysis agent returned a
\* result, and then broadcasts new_alert once, with the id of the row it
\* inserted; when the agent fails or the alert is not relevant, the table is as
\* before and no new_alert is broadcast. No other call stores an alert or
\* broadcasts new_alert.
C35_NewAlertAfterInsert ==
    /\ (alertOp.op = "process" /\ alertOp.ok) =>
          /\ alertOp.id \notin {a.id : a \in alertOp.alerts}
          /\ alerts = alertOp.alerts \cup {[id |-> alertOp.id]}
          /\ events = <<NewAlert(alertOp.id)>>
    /\ (alertOp.op = "ignored" \/ (alertOp.op = "process" /\ ~alertOp.ok)) =>
          /\ alerts = alertOp.alerts
          /\ Broadcast("new_alert") = {}
    /\ alerts \ alertOp.alerts # {} => alertOp.op = "process" /\ alertOp.ok
    /\ \A i \in Broadcast("new_alert") :
          /\ alertOp.op = "process" /\ alertOp.ok
          /\ \E a \in alerts : a.id = events[i].alert_id

C35_Witness ==
    /\ alertOp.op = "process" /\ alertOp.ok
    /\ alertOp.id = 2
    /\ alertOp.alerts = {}
    /\ events = <<NewAlert(2)>>
    /\ alerts = {[id |-> 2]}

\* C36: while chat_with_alert waits for the chat agent the user's message is
\* stored (as long as the alert is); the assistant's message is stored and
\* chat_message broadcast, with the ids of the alert and of that message, only
\* at the agent's Ok; a call that fails after the user's message was stored
\* leaves the messages as they were and broadcasts nothing; a call for an
\* unknown alert id stores nothing.
C36_ChatOrder ==
    /\ \A c \in chats :
          (c.at = "running" /\ \E a \in alerts : a.id = c.alert_id) =>
              [id |-> c.user_message, alert_id |-> c.alert_id, role |-> "user"] \in chat_messages
    /\ alertOp.op = "user" =>
          \A m \in chat_messages \ alertOp.chat_messages : m.role = "user"
    /\ (alertOp.op = "assistant" /\ alertOp.ok) =>
          \E m \in chat_messages \ alertOp.chat_messages :
              /\ chat_messages = alertOp.chat_messages \cup {m}
              /\ m.role = "assistant" /\ m.alert_id = alertOp.id
              /\ events = <<ChatMessage(alertOp.id, m.id)>>
    /\ (alertOp.op = "assistant" /\ ~alertOp.ok) =>
          /\ chat_messages = alertOp.chat_messages
          /\ events = <<>>
    /\ (alertOp.op = "chat" /\ ~alertOp.ok) =>
          /\ ~\E a \in alerts : a.id = alertOp.id
          /\ chat_messages = alertOp.chat_messages
          /\ events = <<>>
          /\ ~\E c \in chats : c.alert_id = alertOp.id
    /\ (\E m \in chat_messages \ alertOp.chat_messages : m.role = "assistant") =>
          alertOp.op = "assistant" /\ alertOp.ok
    /\ Broadcast("chat_message") # {} => alertOp.op = "assistant" /\ alertOp.ok

\* the chat agent failed: the alert is there, with the user's message and no reply
C36_Witness ==
    /\ alertOp.op = "assistant" /\ ~alertOp.ok
    /\ \E a \in alerts : a.id = alertOp.id
    /\ \E m \in chat_messages : m.alert_id = alertOp.id /\ m.role = "user"
    /\ ~\E m \in chat_messages : m.alert_id = alertOp.id /\ m.role = "assistant"
    /\ events = <<>>

\* C37: delete_alert broadcasts alert_deleted, with the id, if and only if a
\* row was deleted; the delete of an id without a row is answered not-found,
\* changes no table and broadcasts nothing. No other call broadcasts
\* alert_deleted.
C37_DeletedEventIffDeleted ==
    /\ alertOp.op = "delete" =>
          /\ alertOp.ok <=> alerts # alertOp.alerts
          /\ alertOp.ok => events = <<AlertDeleted(alertOp.id)>>
          /\ ~alertOp.ok =>
                /\ ~\E a \in alertOp.alerts : a.id = alertOp.id
                /\ alerts = alertOp.alerts
                /\ chat_messages = alertOp.chat_messages
                /\ events = <<>>
    /\ Broadcast("alert_deleted") # {} => alertOp.op = "delete" /\ alertOp.ok

\* not-found on a table that holds another alert and its messages
C37_Witness ==
    /\ alertOp.op = "delete" /\ ~alertOp.ok
    /\ alerts # {}
    /\ chat_messages # {}
    /\ events = <<>>

(***************************************************************************)
(* The relevance of an alert (config.rs PrefixesConfig).                   *)
(***************************************************************************)
MaxPrefixes == 2

\* the prefix strings of prefixes.yml and of the alerts
PrefixStrings == {"10.0.0.0/8", "10.1.0.0/16", "192.0.2.0/24", "not-a-prefix"}

\* alert_prefix.parse::<ipnet::IpNet>(): the leading octets the prefix length
\* covers, none for a string that is no prefix
ParseIpNet(s) ==
    IF s = "10.0.0.0/8" THEN {<<10>>}
    ELSE IF s = "10.1.0.0/16" THEN {<<10, 1>>}
    ELSE IF s = "192.0.2.0/24" THEN {<<192, 0, 2>>}
    ELSE {}

\* IpNet::prefix_len, in octets
prefix_len(net) == Len(net)

\* IpNet::contains(&other)
contains(net, other) ==
    /\ prefix_len(net) <= prefix_len(other)
    /\ SubSeq(other, 1, prefix_len(net)) = net

\* the prefixes maps of at most MaxPrefixes entries, each a PrefixInfo
PrefixMaps ==
    UNION {[keys -> [ignore_morespecifics : BOOLEAN, ignore : BOOLEAN]] :
              keys \in {k \in SUBSET PrefixStrings : Cardinality(k) <= MaxPrefixes}}

\* is_asn_monitored
is_asn_monitored(monitored_asns, asn) == asn \in monitored_asns

\* find_matching_prefix_info: the PrefixInfo values it can return (the loop
\* runs over a HashMap, in any order), none for None
find_matching_prefix_info(prefixes, alert_prefix) ==
    IF alert_prefix \in DOMAIN prefixes
    THEN {prefixes[alert_prefix]}
    ELSE {prefixes[monitored_prefix] : monitored_prefix \in
            {k \in DOMAIN prefixes :
                /\ ~prefixes[k].ignore
                /\ \E alert_net \in ParseIpNet(alert_prefix), monitored_net \in ParseIpNet(k) :
                    \/ /\ contains(monitored_net, alert_net)
                       /\ ~(/\ prefixes[k].ignore_morespecifics
                            /\ prefix_len(alert_net) > prefix_len(monitored_net))
                    \/ /\ ~contains(monitored_net, alert_net)
                       /\ contains(alert_net, monitored_net)}}

\* is_prefix_relevant
is_prefix_relevant(prefixes, alert_prefix) ==
    find_matching_prefix_info(prefixes, alert_prefix) # {}

\* is_alert_relevant
is_alert_relevant(c) ==
    \/ is_prefix_relevant(c.prefixes, c.prefix)
    \/ \E newprefix \in c.newprefix : is_prefix_relevant(c.prefixes, newprefix)
    \/ is_asn_monitored(c.monitored_asns, c.asn)
    \/ \E neworigin \in c.neworigin : is_asn_monitored(c.monitored_asns, neworigin)

RelevanceInit ==
    /\ registry = {}
    /\ agent = "AlertAnalyzer"
    /\ AgentIdle
    /\ HealthIdle
    /\ RegistryIdle
    /\ ConnectIdle
    /\ AlertIdle
    /\ RaceIdle
    /\ TuiIdle
    /\ \E prefixes \in PrefixMaps, monitored_asns \in {{}, {"65000"}}, prefix \in PrefixStrings,
          newprefix \in {{}, {"10.1.0.0/16"}}, asn \in {"65000", "65001"}, neworigin \in {{}, {"65000"}} :
         relevance = [prefixes |-> prefixes, monitored_asns |-> monitored_asns,
                      prefix |-> prefix, newprefix |-> newprefix, asn |-> asn,
                      neworigin |-> neworigin, returned |-> FALSE, result |-> FALSE]

\* state.prefixes_config.is_alert_relevant(&payload)
IsAlertRelevant ==
    /\ ~relevance.returned
    /\ relevance' = [relevance EXCEPT !.returned = TRUE, !.result = is_alert_relevant(relevance)]
    /\ UNCHANGED <<registry, agentVars, healthVars, registryVars, connectVars, alertVars,
                   raceVars, tuiVars>>

RelevanceSpec == RelevanceInit /\ [][IsAlertRelevant]_vars

\* the monitored prefixes the alert's prefix equals, lies in or covers
Matched(prefixes, alert_prefix) ==
    {k \in DOMAIN prefixes :
        \/ k = alert_prefix
        \/ \E alert_net \in ParseIpNet(alert_prefix), monitored_net \in ParseIpNet(k) :
              contains(monitored_net, alert_net) \/ contains(alert_net, monitored_net)}

\* the monitored prefixes the prefixes of the alert match
MatchedByAlert(c) ==
    Matched(c.prefixes, c.prefix) \cup UNION {Matched(c.prefixes, p) : p \in c.newprefix}

\* C38: for an alert whose ASNs are not monitored and whose prefixes match
\* only monitored prefixes flagged ignore, exactly or by containment,
\* is_alert_relevant returns false
C38_IgnoredNeverRelevant ==
    (/\ relevance.returned
     /\ ~is_asn_monitored(relevance.monitored_asns, relevance.asn)
     /\ \A neworigin \in relevance.neworigin :
           ~is_asn_monitored(relevance.monitored_asns, neworigin)
     /\ \A k \in MatchedByAlert(relevance) : relevance.prefixes[k].ignore)
        => ~relevance.result

(***************************************************************************)
(* The terminal UI (ui/tui/terminal.rs run): the loop that drains the      *)
(* channel into the message buffer, draws, and polls the keyboard.         *)
(***************************************************************************)
MaxSent == 52

MaxPending == 2

\* `if messages.len() > 50`
BufferLimit == 50

\* Mutant of Push: over the limit the buffer is cut back to its first lines
Push_Truncate(buffer, msg) ==
    LET pushed == Append(buffer, msg)
    IN  IF Len(pushed) > BufferLimit THEN SubSeq(pushed, 1, BufferLimit) ELSE pushed

\* the body of `while let Ok(msg) = rx.try_recv()`: messages.push(msg), and
\* messages.remove(0) when the length is over the limit
Push(buffer, msg) ==
    LET pushed == Append(buffer, msg)
    IN  IF Len(pushed) > BufferLimit THEN Tail(pushed) ELSE pushed

\* messages starts with the line "Waiting for agent results...", written 0 here;
\* the message sent as the n-th is written n
TuiInit ==
    /\ registry = {}
    /\ agent = "AlertAnalyzer"
    /\ AgentIdle
    /\ HealthIdle
    /\ RegistryIdle
    /\ ConnectIdle
    /\ AlertIdle
    /\ RaceIdle
    /\ ConfigIdle
    /\ messages = <<0>>
    /\ rx = <<>>
    /\ sent = 0
    /\ tui = "recv"

\* a sender of the unbounded channel, at any time while the receiver lives
Send ==
    /\ tui \in {"recv", "poll"}
    /\ sent < MaxSent
    /\ Len(rx) < MaxPending
    /\ sent' = sent + 1
    /\ rx' = Append(rx, sent + 1)
    /\ UNCHANGED <<registry, agentVars, healthVars, registryVars, connectVars, alertVars,
                   raceVars, configVars, messages, tui>>

\* rx.try_recv() returned Ok(msg)
Receive ==
    /\ tui = "recv"
    /\ rx # <<>>
    /\ messages' = Push(messages, Head(rx))
    /\ rx' = Tail(rx)
    /\ UNCHANGED <<registry, agentVars, healthVars, registryVars, connectVars, alertVars,
                   raceVars, configVars, sent, tui>>

\* rx.try_recv() returned Err (the channel is empty): terminal.draw
Draw ==
    /\ tui = "recv"
    /\ rx = <<>>
    /\ tui' = "poll"
    /\ UNCHANGED <<registry, agentVars, healthVars, registryVars, connectVars, alertVars,
                   raceVars, configVars, messages, rx, sent>>

\* event::poll(100 ms): the key q leaves the loop, anything else repeats it
Poll ==
    /\ tui = "poll"
    /\ \E quit \in BOOLEAN : tui' = IF quit THEN "quit" ELSE "recv"
    /\ UNCHANGED <<registry, agentVars, healthVars, registryVars, connectVars, alertVars,
                   raceVars, configVars, messages, rx, sent>>

TuiNext ==
    \/ Send
    \/ Receive
    \/ Draw
    \/ Poll

TuiSpec == TuiInit /\ [][TuiNext]_vars

\* the lines that arrived at the buffer so far, in arrival order: the
\* waiting line, then the messages received
Arrived == [i \in 1..(sent - Len(rx) + 1) |-> i - 1]

\* C39: after every receive step the buffer holds at most 50 messages, and
\* they are the most recent arrivals in arrival order (the oldest is dropped
\* when a message arrives at a full buffer)
C39_BufferBounded ==
    tui # "idle" =>
        /\ Len(messages) <= 50
        /\ LET n == Len(Arrived)
               k == IF n < 50 THEN n ELSE 50
           IN  messages = SubSeq(Arrived, n - k + 1, n)

\* the buffer is full and two lines were dropped from its front
C39_Witness ==
    /\ tui = "recv"
    /\ Len(messages) = 50
    /\ messages[1] = 2
    /\ messages[50] = 51

====
